---------------------------- MODULE Spec2Model ----------------------------
(***************************************************************************)
(* Candidate agreement core of the Polkadot consensus crate:               *)
(*   - the shared statement table (SharedTable / SharedTableInner),        *)
(*   - the StatementProducer future,                                       *)
(*   - the inherents pool.                                                 *)
(* Option<T> values are sets with at most one element: None is {} and      *)
(* Some(x) is {x}.                                                         *)
(***************************************************************************)
EXTENDS Integers, Sequences, FiniteSets, TLC

VARIABLES
    \* ---- SharedTable (lib.rs 203-208, 361-364) ----
    groups,               \* TableContext.groups
    table,                \* SharedTableInner.table
    proposed_digest,      \* SharedTableInner.proposed_digest : Option<Hash>
    checked_validity,     \* SharedTableInner.checked_validity : HashSet<Hash>
    checked_availability, \* SharedTableInner.checked_availability
    router,               \* the calls the TableRouter has received
    mutex,                \* owner of SharedTable.inner's Mutex : Option<task>
    pc,                   \* where each task is
    ret,                  \* the value the last completed operation returned
    imported,             \* history: how often each statement came from remote
    ncalls,               \* number of operations performed so far
    \* ---- StatementProducer (lib.rs 291-296) ----
    producer,             \* the producer being polled
    inner_block,          \* the future inside fetch_block_data's Fuse
    inner_extr,           \* the future inside fetch_extrinsic's Fuse
    poll_result,          \* what the last poll returned
    \* ---- InherentsPool (pool.rs 26-28) ----
    data,                 \* InherentsPool.data
    drained,              \* what the last drain returned
    added,                \* history: items added since the last drain
    \* ---- InherentsPool shared by threads (pool.rs 26-56) ----
    pool_lock,            \* owner of InherentsPool.data's Mutex
    threads,              \* where each thread is in its add or drain call
    effects,              \* history: the items in the order their push happened
    drains,               \* history: what the drains returned, in drain order
    \* ---- drain_to ----
    inherent_data,        \* the InherentData a drain_to fills
    \* ---- make_group_info (lib.rs 479-522) ----
    duty_roster,          \* argument roster
    authority_list,       \* argument authorities
    group_info,           \* the Result returned : Option
    \* ---- sign_table_statement / sign_statement (lib.rs 158-192) ----
    sign_args,            \* [statement, key, parent_hash]
    signed_out,           \* the value returned : Option
    \* ---- evaluate_proposal (lib.rs 766-806) ----
    eval_args,            \* [proposal, now, client]
    evaluation,           \* the Result returned : Option
    evaluated,            \* the blocks handed to client.evaluate_block
    \* ---- CreateProposal (lib.rs 675-764) ----
    clock,                \* current time
    collation_fetch,      \* the CollationFetch future
    created,              \* what the last CreateProposal::poll did
    local_candidate,      \* the calls of router.local_candidate_data
    \* ---- Proposer::import_misbehavior (lib.rs 619-671) ----
    tx_pool,              \* the pending transactions of the pool, in order
    chain_index,          \* what client.index(parent_id, local_id) returns
    submitted,            \* the last call: its arguments and its pool.import calls
    \* ---- the transaction pool shared by threads (lib.rs 593, 625, 703) ----
    tx_lock,              \* owner of the transaction pool's Mutex
    callers,              \* where each thread is in its call
    \* ---- contract accounts (account_db.rs) ----
    db,                   \* the runtime storage behind DirectAccountDb
    db_call,              \* the last call on it and the storage before : Option
    overlay,              \* the OverlayAccountDbs: [a, b, writes]
    \* ---- CreateProposal::propose (lib.rs 693-735) ----
    pending_txs,          \* the transactions pool.pending yields, in order
    proposed              \* what the last propose did : Option

tableVars == <<groups, table, proposed_digest, checked_validity,
               checked_availability, router, mutex, pc, ret, imported, ncalls>>
producerVars == <<producer, inner_block, inner_extr, poll_result>>
poolVars == <<data, drained, added>>
concVars == <<pool_lock, threads, effects, drains>>
inherentVars == <<inherent_data>>
groupVars == <<duty_roster, authority_list, group_info>>
signVars == <<sign_args, signed_out>>
evalVars == <<eval_args, evaluation, evaluated>>
createVars == <<clock, collation_fetch, created, local_candidate>>
misVars == <<tx_pool, chain_index, submitted>>
txVars == <<tx_lock, callers>>
dbVars == <<db, db_call, overlay>>
proposeVars == <<pending_txs, proposed>>
moreVars == <<txVars, dbVars, proposeVars>>
restVars == <<concVars, inherentVars, groupVars, signVars, evalVars, createVars,
              misVars, moreVars>>
vars == <<tableVars, producerVars, poolVars, restVars>>

--------------------------------------------------------------------------
(* Bounds of the model.                                                    *)

\* operations performed on one shared table
MaxCalls == 4
\* add calls on one inherents pool
MaxAdds == 4
\* drain calls of the threads that share one inherents pool
MaxDrains == 3
\* bundles pooled before a drain_to
MaxBundles == 2
\* authorities and duties given to make_group_info
MaxAuthorities == 3
\* seconds the clock runs after the proposer was made
MaxClock == 4
\* entries of the list given to import_misbehavior
MaxReports == 3

\* entries of a list given to one of two concurrent import_misbehavior calls
MaxConcReports == 2
\* the largest value of T::Balance
BalanceMax == 3
\* transactions pending in the pool when a proposal is made
MaxPending == 3
\* calls made on the overlays of one storage
MaxWrites == 3
--------------------------------------------------------------------------
(* Option<T>                                                               *)

None == {}
Some(x) == {x}
IsSome(o) == o # {}
Unwrap(o) == CHOOSE x \in o : TRUE

--------------------------------------------------------------------------
(* Universe of values.                                                     *)

\* The authorities of the slot, in roster order; "L" holds the local key.
Authorities == <<"L", "A", "B">>
AuthoritySet == {Authorities[i] : i \in 1..Len(Authorities)}
LocalKey == "L"

\* The relay parent the table is built on, and another one.
ParentHash == "P0"
OtherParent == "P1"

Relay == [chain |-> "Relay", id |-> 0]
Parachain(p) == [chain |-> "Parachain", id |-> p]

\* Candidate receipts: two candidates of parachain 1.
R1 == [parachain_index |-> 1, head |-> "a"]
R2 == [parachain_index |-> 1, head |-> "b"]
Receipts == {R1, R2}

\* CandidateReceipt::hash, injective on Receipts.
ReceiptHash(r) == IF r.head = "a" THEN "h1" ELSE "h2"
Digests == {ReceiptHash(r) : r \in Receipts}
ReceiptOf(d) == CHOOSE r \in Receipts : ReceiptHash(r) = d

\* table::Statement
Candidate(r) == [kind |-> "Candidate", receipt |-> Some(r), digest |-> ReceiptHash(r)]
Valid(d) == [kind |-> "Valid", receipt |-> None, digest |-> d]
Invalid(d) == [kind |-> "Invalid", receipt |-> None, digest |-> d]
Available(d) == [kind |-> "Available", receipt |-> None, digest |-> d]

Statements ==
    {Candidate(R1), Candidate(R2), Valid("h1"), Invalid("h1"), Available("h1")}

\* StatementSource
Local == [source |-> "Local", from |-> None]
Remote(from) == [source |-> "Remote", from |-> from]

--------------------------------------------------------------------------
(* Signing (lib.rs 158-192).  An ed25519 signature is determined by the    *)
(* key and the message; it verifies under that key for that message only.  *)

\* RawStatement::encode: the wire form keeps the variant and its payload.
Encode(statement) == <<statement.kind, statement.receipt, statement.digest>>

\* Mutant: the parent hash is left out of the signed message.
sign_table_statement_unbound(statement, key, parent_hash) ==
    [signer |-> key, message |-> <<Encode(statement)>>]

\* lines 188-191: the message is the encoded statement followed by the
\* parent hash
sign_table_statement(statement, key, parent_hash) ==
    [signer |-> key, message |-> <<Encode(statement), parent_hash>>]

\* ed25519 verification of a signature over a message under a public key
Verify(signature, message, public) ==
    /\ signature.signer = public
    /\ signature.message = message

\* TableContext::sign_statement
sign_statement(statement) ==
    [statement |-> statement,
     signature |-> sign_table_statement(statement, LocalKey, ParentHash),
     sender    |-> LocalKey]

\* ed25519 verification of a signed statement against a parent hash
VerifySignature(signed, parent_hash) ==
    /\ signed.signature.signer = signed.sender
    /\ signed.signature.message = <<Encode(signed.statement), parent_hash>>

\* A statement signed by authority a against parent hash p.
SignedBy(statement, a, p) ==
    [statement |-> statement,
     signature |-> sign_table_statement(statement, a, p),
     sender    |-> a]

\* What remote peers hand to the table in this model: statements signed
\* against the table's parent by the authorities (the local one included),
\* and one signed against another parent.
RemoteStatements ==
    {SignedBy(Candidate(R1), "A", ParentHash),
     SignedBy(Candidate(R1), "B", ParentHash),
     SignedBy(Candidate(R2), "A", ParentHash),
     SignedBy(Valid("h1"), "B", ParentHash),
     SignedBy(Valid("h1"), "L", ParentHash),
     SignedBy(Invalid("h1"), "B", ParentHash),
     SignedBy(Available("h1"), "A", ParentHash),
     SignedBy(Available("h1"), "L", ParentHash),
     SignedBy(Candidate(R1), "A", OtherParent)}

--------------------------------------------------------------------------
(* Group info (lib.rs 122-133, 479-522)                                    *)

DefaultGroupInfo ==
    [validity_guarantors |-> {}, availability_guarantors |-> {},
     needed_validity |-> 0, needed_availability |-> 0]

\* Mutant: half the guarantors, rounded down.
NeededVotesFloor(n) == n \div 2

\* lines 517-518: len / 2 + len % 2
NeededVotes(n) == (n \div 2) + (n % 2)

\* Mutant: the expected and the actual length change places.
InvalidDutyRosterLengthSwapped(expected, actual) ==
    <<"InvalidDutyRosterLength", actual, expected>>

\* ErrorKind::InvalidDutyRosterLength(expected, actual), lines 481 and 485
InvalidDutyRosterLength(expected, actual) ==
    <<"InvalidDutyRosterLength", expected, actual>>

\* map.entry(id).or_insert_with(GroupInfo::default)
EntryOrDefault(map, id) ==
    IF id \in DOMAIN map THEN map[id] ELSE DefaultGroupInfo

\* the map with the entry of id set
WithEntry(map, id, info) ==
    [p \in DOMAIN map \cup {id} |-> IF p = id THEN info ELSE map[p]]

\* lines 494-501
AddValidityGuarantor(map, v_duty, authority) ==
    IF v_duty.chain = "Relay" THEN map
    ELSE WithEntry(map, v_duty.id,
                   [EntryOrDefault(map, v_duty.id) EXCEPT
                       !.validity_guarantors = @ \cup {authority}])

\* lines 503-510
AddAvailabilityGuarantor(map, a_duty, authority) ==
    IF a_duty.chain = "Relay" THEN map
    ELSE WithEntry(map, a_duty.id,
                   [EntryOrDefault(map, a_duty.id) EXCEPT
                       !.availability_guarantors = @ \cup {authority}])

RECURSIVE DutyIter(_, _, _, _)
\* lines 490-511: the loop over the zipped authorities and duties, from
\* index i on
DutyIter(map, roster, authorities, i) ==
    IF \/ i > Len(authorities)
       \/ i > Len(roster.validator_duty)
       \/ i > Len(roster.guarantor_duty)
    THEN map
    ELSE DutyIter(AddAvailabilityGuarantor(
                      AddValidityGuarantor(map, roster.validator_duty[i],
                                           authorities[i]),
                      roster.guarantor_duty[i], authorities[i]),
                  roster, authorities, i + 1)

\* lines 513-519
LiveGroups(map) ==
    [p \in DOMAIN map |->
        [map[p] EXCEPT
            !.needed_validity = NeededVotes(Cardinality(map[p].validity_guarantors)),
            !.needed_availability =
                NeededVotes(Cardinality(map[p].availability_guarantors))]]

make_group_info(roster, authorities) ==
    IF Len(roster.validator_duty) # Len(authorities)
    THEN [ok |-> FALSE,
          err |-> InvalidDutyRosterLength(Len(authorities),
                                          Len(roster.validator_duty)),
          map |-> <<>>]
    ELSE IF Len(roster.guarantor_duty) # Len(authorities)
    THEN [ok |-> FALSE,
          err |-> InvalidDutyRosterLength(Len(authorities),
                                          Len(roster.guarantor_duty)),
          map |-> <<>>]
    ELSE [ok |-> TRUE, err |-> <<>>,
          map |-> LiveGroups(DutyIter(<<>>, roster, authorities, 1))]

\* The duty rosters a table is built from in this model.
Rosters ==
    { \* local node guarantees validity and availability of parachain 1
      [validator_duty |-> <<Parachain(1), Parachain(1), Parachain(1)>>,
       guarantor_duty |-> <<Parachain(1), Parachain(1), Relay>>],
      \* local node guarantees availability only
      [validator_duty |-> <<Relay, Parachain(1), Parachain(1)>>,
       guarantor_duty |-> <<Parachain(1), Parachain(1), Relay>>],
      \* local node guarantees validity only
      [validator_duty |-> <<Parachain(1), Parachain(1), Relay>>,
       guarantor_duty |-> <<Relay, Parachain(1), Parachain(1)>>] }

--------------------------------------------------------------------------
(* TableContext (lib.rs 135-173).  The context of a table is               *)
(* [parent_hash, key, groups]; the key and the parent hash are fixed.      *)

\* usize::max_value(), which no number of votes reaches; the largest integer
\* of the model stands for it
UsizeMax == 2147483647

is_member_of(g, authority, group) ==
    IF group \in DOMAIN g THEN authority \in g[group].validity_guarantors ELSE FALSE

is_availability_guarantor_of(g, authority, group) ==
    IF group \in DOMAIN g THEN authority \in g[group].availability_guarantors ELSE FALSE

\* Mutant: the pair is returned in the wrong order.
requisite_votes_swapped(g, group) ==
    IF group \in DOMAIN g
    THEN <<g[group].needed_availability, g[group].needed_validity>>
    ELSE <<UsizeMax, UsizeMax>>

requisite_votes(g, group) ==
    IF group \in DOMAIN g
    THEN <<g[group].needed_validity, g[group].needed_availability>>
    ELSE <<UsizeMax, UsizeMax>>

local_id == LocalKey

--------------------------------------------------------------------------
(* The statement table (crate polkadot_statement_table).  A table is       *)
(*   candidates  : digest -> Option<CandidateRecord>                       *)
(*   pending     : digest -> signed votes on a digest with no candidate yet*)
(*   misbehavior : authority -> Option<kind>, the first one detected       *)
(*   seen        : the (sender, statement) pairs already handled           *)
(*   statements  : the signed statements the table holds (fill_batch)      *)

NoVote == "NoVote"

EmptyTable ==
    [candidates  |-> [d \in Digests |-> None],
     pending     |-> [d \in Digests |-> {}],
     misbehavior |-> [a \in AuthoritySet |-> None],
     seen        |-> {},
     statements  |-> {}]

\* Table::get_candidate
get_candidate(t, digest) ==
    IF digest \in DOMAIN t.candidates /\ IsSome(t.candidates[digest])
    THEN Some(Unwrap(t.candidates[digest]).receipt)
    ELSE None

\* Table::get_misbehavior
get_misbehavior(t) == t.misbehavior

ValidCount(rec) ==
    Cardinality({a \in AuthoritySet : rec.validity_votes[a] \in {"Valid", "Implicit"}})
InvalidCount(rec) ==
    Cardinality({a \in AuthoritySet : rec.validity_votes[a] = "Invalid"})
AvailableCount(rec) == Cardinality(rec.availability_votes)

\* a count of votes against a threshold of requisite_votes
Reaches(count, threshold) == count >= threshold

\* the includable flag of a record, from the context's thresholds
Includable(g, rec) ==
    LET needed == requisite_votes(g, rec.group_id)
    IN /\ Reaches(ValidCount(rec), needed[1])
       /\ InvalidCount(rec) = 0
       /\ Reaches(AvailableCount(rec), needed[2])

Refresh(g, rec) == [rec EXCEPT !.includable = Includable(g, rec)]

\* only the first misbehavior of an author is retained
NoteMisbehavior(t, a, kind) ==
    IF a \in DOMAIN t.misbehavior /\ t.misbehavior[a] = None
    THEN [t EXCEPT !.misbehavior[a] = Some(kind)]
    ELSE t

Rejected(t, a, kind) == [table |-> NoteMisbehavior(t, a, kind), summary |-> None]
Ignored(t) == [table |-> t, summary |-> None]
Accepted(t, d, rec) ==
    [table |-> t, summary |-> Some([candidate |-> d, group_id |-> rec.group_id])]

\* whether a buffered vote may be counted once the candidate's group is known
PendingAuthorized(g, signed, group) ==
    IF signed.statement.kind = "Available"
    THEN is_availability_guarantor_of(g, signed.sender, group)
    ELSE is_member_of(g, signed.sender, group)

ImportCandidate(g, t, signed) ==
    LET a == signed.sender
        r == Unwrap(signed.statement.receipt)
        d == ReceiptHash(r)
        group == r.parachain_index
        others == {d2 \in Digests \ {d} :
                      /\ IsSome(t.candidates[d2])
                      /\ Unwrap(t.candidates[d2]).group_id = group
                      /\ Unwrap(t.candidates[d2]).validity_votes[a] = "Implicit"}
    IN IF ~is_member_of(g, a, group) THEN Rejected(t, a, "UnauthorizedStatement")
       ELSE IF others # {} THEN Rejected(t, a, "MultipleCandidates")
       ELSE IF IsSome(t.candidates[d])
       THEN LET rec == Unwrap(t.candidates[d])
            IN IF rec.validity_votes[a] = "Invalid"
               THEN Rejected(t, a, "ValidityDoubleVote")
               ELSE IF rec.validity_votes[a] # NoVote THEN Ignored(t)
               ELSE LET rec2 == Refresh(g, [rec EXCEPT !.validity_votes[a] = "Implicit"])
                    IN Accepted([t EXCEPT !.candidates[d] = Some(rec2),
                                          !.statements = @ \cup {signed}], d, rec2)
       ELSE LET \* the proposer's own buffered validity votes give way to its
                \* implicit vote
                own == {p \in t.pending[d] :
                           p.sender = a /\ p.statement.kind \in {"Valid", "Invalid"}}
                good == {p \in t.pending[d] \ own : PendingAuthorized(g, p, group)}
                bad == t.pending[d] \ (own \cup good)
                votes == [b \in AuthoritySet |->
                            IF b = a THEN "Implicit"
                            ELSE IF \E p \in good : p.sender = b /\ p.statement.kind = "Valid"
                            THEN "Valid"
                            ELSE IF \E p \in good : p.sender = b /\ p.statement.kind = "Invalid"
                            THEN "Invalid"
                            ELSE NoVote]
                rec == Refresh(g,
                         [receipt |-> r, group_id |-> group, proposer |-> a,
                          validity_votes |-> votes,
                          availability_votes |->
                              {p.sender : p \in {q \in good : q.statement.kind = "Available"}},
                          includable |-> FALSE])
                t2 == [t EXCEPT !.candidates[d] = Some(rec),
                                !.pending[d] = {},
                                !.statements = @ \cup {signed} \cup good,
                                !.misbehavior = [b \in AuthoritySet |->
                                    IF t.misbehavior[b] # None THEN t.misbehavior[b]
                                    ELSE IF \E p \in bad : p.sender = b
                                    THEN Some("UnauthorizedStatement")
                                    ELSE IF \E p \in own : p.sender = b /\ p.statement.kind = "Invalid"
                                    THEN Some("ValidityDoubleVote")
                                    ELSE None]]
            IN Accepted(t2, d, rec)

Opposite(kind) == IF kind = "Valid" THEN "Invalid" ELSE "Valid"

ValidityVote(g, t, signed) ==
    LET a == signed.sender
        d == signed.statement.digest
        kind == signed.statement.kind
    IN IF ~IsSome(t.candidates[d])
       THEN \* unknown digest: buffered, not counted
            IF \E p \in t.pending[d] : p.sender = a /\ p.statement.kind = Opposite(kind)
            THEN Rejected(t, a, "ValidityDoubleVote")
            ELSE Ignored([t EXCEPT !.pending[d] = @ \cup {signed}])
       ELSE LET rec == Unwrap(t.candidates[d])
            IN IF ~is_member_of(g, a, rec.group_id) \/ a = rec.proposer
               THEN Rejected(t, a, "UnauthorizedStatement")
               ELSE IF rec.validity_votes[a] = Opposite(kind)
                       \/ (rec.validity_votes[a] = "Implicit" /\ kind = "Invalid")
               THEN Rejected(t, a, "ValidityDoubleVote")
               ELSE IF rec.validity_votes[a] # NoVote THEN Ignored(t)
               ELSE LET rec2 == Refresh(g, [rec EXCEPT !.validity_votes[a] = kind])
                    IN Accepted([t EXCEPT !.candidates[d] = Some(rec2),
                                          !.statements = @ \cup {signed}], d, rec2)

AvailabilityVote(g, t, signed) ==
    LET a == signed.sender
        d == signed.statement.digest
    IN IF ~IsSome(t.candidates[d])
       THEN Ignored([t EXCEPT !.pending[d] = @ \cup {signed}])
       ELSE LET rec == Unwrap(t.candidates[d])
            IN IF ~is_availability_guarantor_of(g, a, rec.group_id)
               THEN Rejected(t, a, "UnauthorizedStatement")
               ELSE IF a \in rec.availability_votes THEN Ignored(t)
               ELSE LET rec2 == Refresh(g, [rec EXCEPT !.availability_votes = @ \cup {a}])
                    IN Accepted([t EXCEPT !.candidates[d] = Some(rec2),
                                          !.statements = @ \cup {signed}], d, rec2)

\* Table::import_statement(context, statement, received_from) -> Option<Summary>
table_import_statement(g, t, signed, received_from) ==
    IF ~VerifySignature(signed, ParentHash)
    THEN Rejected(t, signed.sender, "UnauthorizedStatement")
    ELSE IF <<signed.sender, signed.statement>> \in t.seen THEN Ignored(t)
    ELSE LET t1 == [t EXCEPT !.seen = @ \cup {<<signed.sender, signed.statement>>}]
         IN IF signed.statement.kind = "Candidate" THEN ImportCandidate(g, t1, signed)
            ELSE IF signed.statement.kind = "Available" THEN AvailabilityVote(g, t1, signed)
            ELSE ValidityVote(g, t1, signed)

\* Table::fill_batch: the signed statements the table can emit
fill_batch(t) == t.statements

--------------------------------------------------------------------------
(* StatementProducer and ProducedStatements (lib.rs 275-307)               *)

DefaultProducedStatements ==
    [validity |-> None, availability |-> None, block_data |-> None, extrinsic |-> None]

DefaultProducer ==
    [fetch_block_data    |-> None,
     fetch_extrinsic     |-> None,
     produced_statements |-> DefaultProducedStatements,
     candidate_digest    |-> None]

\* Future::fuse (futures 0.1): Fuse { future: Some(f) }
Fuse(f) == [future |-> Some(f)]
\* a Fuse whose future completed: Fuse { future: None }
FuseTerminated == [future |-> None]

--------------------------------------------------------------------------
(* TableRouter (lib.rs 94-110): the model records the calls it receives,   *)
(* per candidate digest.                                                   *)

EmptyRouter ==
    [fetch_block_data     |-> [d \in Digests |-> 0],
     fetch_extrinsic_data |-> [d \in Digests |-> 0]]

\* router.fetch_block_data(candidate)
router_fetch_block_data(rt, candidate) ==
    [rt EXCEPT !.fetch_block_data[ReceiptHash(candidate)] = @ + 1]

\* router.fetch_extrinsic_data(candidate)
router_fetch_extrinsic_data(rt, candidate) ==
    [rt EXCEPT !.fetch_extrinsic_data[ReceiptHash(candidate)] = @ + 1]

--------------------------------------------------------------------------
(* SharedTableInner::import_statement (lib.rs 210-273).  The inner state   *)
(* is [table, proposed_digest, checked_validity, checked_availability].    *)

\* Mutant: a statement the table gives no summary for is treated as a
\* summary of the candidate it names.
SummaryOrReturnNamed(summary, statement) ==
    IF summary = None
    THEN Some([candidate |-> statement.statement.digest,
               group_id  |-> ReceiptOf(statement.statement.digest).parachain_index])
    ELSE summary

\* lines 228-231: the summary the import goes on with; None returns the
\* blank producer
SummaryOrReturn(summary, statement) == summary

\* Mutant: the checked_validity set is not consulted.
checking_validity_unguarded(in, g, summary) ==
    /\ is_member_of(g, local_id, summary.group_id)
    /\ in.proposed_digest # Some(summary.candidate)

\* Mutant: the locally proposed candidate is checked like any other.
checking_validity_own(in, g, summary) ==
    /\ is_member_of(g, local_id, summary.group_id)
    /\ summary.candidate \notin in.checked_validity

\* lines 245-247, the value of checking_validity
checking_validity(in, g, summary) ==
    /\ is_member_of(g, local_id, summary.group_id)
    /\ in.proposed_digest # Some(summary.candidate)
    /\ summary.candidate \notin in.checked_validity

\* Mutant: the digest is inserted before the proposed digest is compared.
checked_validity_eager(in, g, summary) ==
    IF is_member_of(g, local_id, summary.group_id)
    THEN in.checked_validity \cup {summary.candidate}
    ELSE in.checked_validity

\* lines 245-247, the effect on checked_validity: insert runs only when the
\* two conditions before it hold
checked_validity_after(in, g, summary) ==
    IF /\ is_member_of(g, local_id, summary.group_id)
       /\ in.proposed_digest # Some(summary.candidate)
    THEN in.checked_validity \cup {summary.candidate}
    ELSE in.checked_validity

\* lines 249-250, the value of checking_availability
checking_availability(in, g, summary) ==
    /\ is_availability_guarantor_of(g, local_id, summary.group_id)
    /\ summary.candidate \notin in.checked_availability

\* lines 249-250, the effect on checked_availability
checked_availability_after(in, g, summary) ==
    IF is_availability_guarantor_of(g, local_id, summary.group_id)
    THEN in.checked_availability \cup {summary.candidate}
    ELSE in.checked_availability

\* The result of an import: the new inner state, the router after the calls
\* made, and the producer returned.
ImportResult(in, rt, prod) == [inner |-> in, router |-> rt, producer |-> prod]

\* lines 252-271: the fetches started and the producer returned
ArmProducer(in, rt, digest, cv, ca, candidate) ==
    ImportResult(in,
        IF (cv \/ ca) /\ IsSome(candidate)
        THEN [fetch_block_data |->
                  IF cv THEN router_fetch_block_data(rt, Unwrap(candidate)).fetch_block_data
                  ELSE rt.fetch_block_data,
              fetch_extrinsic_data |->
                  IF ca THEN router_fetch_extrinsic_data(rt, Unwrap(candidate)).fetch_extrinsic_data
                  ELSE rt.fetch_extrinsic_data]
        ELSE rt,
        [DefaultProducer EXCEPT
            !.candidate_digest = Some(digest),
            !.fetch_block_data =
                IF cv /\ IsSome(candidate) THEN Some(Fuse("fetch_block_data")) ELSE None,
            !.fetch_extrinsic =
                IF ca /\ IsSome(candidate) THEN Some(Fuse("fetch_extrinsic_data")) ELSE None])

\* lines 233-250: what to check, and the two checked sets updated
CheckSummary(in, g, rt, summary) ==
    ArmProducer(
        [in EXCEPT !.checked_validity = checked_validity_after(in, g, summary),
                   !.checked_availability = checked_availability_after(in, g, summary)],
        rt,
        summary.candidate,
        checking_validity(in, g, summary),
        checking_availability(in, g, summary),
        get_candidate(in.table, summary.candidate))

\* lines 228-231: no summary returns the blank producer
MatchSummary(in, g, rt, maybe) ==
    IF maybe = None THEN ImportResult(in, rt, DefaultProducer)
    ELSE CheckSummary(in, g, rt, Unwrap(maybe))

\* line 228: the table has imported the statement
TableImported(in, g, rt, statement, res) ==
    MatchSummary([in EXCEPT !.table = res.table], g, rt,
                 SummaryOrReturn(res.summary, statement))

InnerImportStatement(in, g, rt, statement, statement_source) ==
    IF statement_source.source = "Local"
    THEN ImportResult(in, rt, DefaultProducer)
    ELSE TableImported(in, g, rt, statement,
             table_import_statement(g, in.table, statement, statement_source.from))

\* SharedTable::import_statements (lib.rs 432-446): the statements of the
\* iterable are imported in order under one lock; the producers are collected.
RECURSIVE ImportAll(_, _, _)
ImportNext(r, g, iterable, producers) ==
    ImportAll([inner |-> r.inner, router |-> r.router,
               producers |-> Append(producers, r.producer)], g, iterable)

ImportAll(acc, g, iterable) ==
    IF iterable = <<>> THEN acc
    ELSE ImportNext(
             InnerImportStatement(acc.inner, g, acc.router, Head(iterable)[1], Head(iterable)[2]),
             g, Tail(iterable), acc.producers)

--------------------------------------------------------------------------
(* The shared table's operations (lib.rs 375-477), called by tasks.        *)
(* A task is "idle", "in_closure" (running the closure given to            *)
(* with_candidate, the table's mutex held) or "locking" (the closure has   *)
(* called a locking operation of the same table and sits in lock()).       *)

Tasks == {"t1", "t2"}

Inner ==
    [table                |-> table,
     proposed_digest      |-> proposed_digest,
     checked_validity     |-> checked_validity,
     checked_availability |-> checked_availability]

\* Mutant: a mutex its owner may lock again.
lock_reentrant(t) == mutex = None \/ mutex = Some(t)

\* parking_lot::Mutex::lock, as self.inner.lock(): returns once the mutex is
\* unlocked, whoever holds it
lock(t) == mutex = None

\* task t may start a locking operation: from outside, or from the closure
CanCall(t) == pc[t] \in {"idle", "locking"} /\ ncalls < MaxCalls /\ lock(t)

\* where task t is once the operation it started has returned
Returned(t) == [pc EXCEPT ![t] = IF pc[t] = "locking" THEN "in_closure" ELSE "idle"]

\* the statements a batch is made of
BatchStatements ==
    {<<SignedBy(Candidate(R1), "A", ParentHash), Remote(None)>>,
     <<SignedBy(Valid("h1"), "B", ParentHash), Remote(None)>>,
     <<SignedBy(Available("h1"), "A", ParentHash), Remote(Some("B"))>>}
Batches ==
    {<<>>} \cup {<<x>> : x \in BatchStatements}
           \cup {<<x, y>> : x \in BatchStatements, y \in BatchStatements}

Sources == {Local, Remote(Some("A"))}

\* the history of remote imports after one more
Imported(statement, statement_source) ==
    IF statement_source.source = "Remote"
    THEN [imported EXCEPT ![statement] = @ + 1]
    ELSE imported

\* the history of remote imports after a batch
ImportedAll(iterable) ==
    [s \in RemoteStatements |->
        imported[s] + Cardinality({i \in 1..Len(iterable) : iterable[i][1] = s})]

\* the inner state and the router after an import, and the value returned
Commit(r, op, value) ==
    /\ table' = r.inner.table
    /\ proposed_digest' = r.inner.proposed_digest
    /\ checked_validity' = r.inner.checked_validity
    /\ checked_availability' = r.inner.checked_availability
    /\ router' = r.router
    /\ ret' = [op |-> op, value |-> value]

CommitOne(r, op) == Commit(r, op, r.producer)
CommitAll(r, op) == Commit(r, op, r.producers)

\* SharedTable::import_statement (lib.rs 399-406)
ImportStatement(t, statement, received_from) ==
    /\ CanCall(t)
    /\ CommitOne(InnerImportStatement(Inner, groups, router, statement, received_from),
                 "import_statement")
    /\ imported' = Imported(statement, received_from)
    /\ pc' = Returned(t)
    /\ ncalls' = ncalls + 1
    /\ UNCHANGED <<groups, mutex, producerVars, poolVars, restVars>>

\* lines 414-424: the digest of a local candidate becomes proposed_digest
SetProposed(in, statement) ==
    IF statement.kind = "Candidate"
    THEN [in EXCEPT !.proposed_digest = Some(ReceiptHash(Unwrap(statement.receipt)))]
    ELSE in

\* SharedTable::sign_and_import (lib.rs 408-427)
SignAndImport(t, statement) ==
    /\ CanCall(t)
    /\ Commit(InnerImportStatement(SetProposed(Inner, statement), groups, router,
                                   sign_statement(statement), Local),
              "sign_and_import", statement)
    /\ pc' = Returned(t)
    /\ ncalls' = ncalls + 1
    /\ UNCHANGED <<groups, mutex, imported, producerVars, poolVars, restVars>>

\* SharedTable::import_statements (lib.rs 429-446)
ImportStatements(t, iterable) ==
    /\ CanCall(t)
    /\ ncalls + Len(iterable) <= MaxCalls
    /\ CommitAll(ImportAll([inner |-> Inner, router |-> router, producers |-> <<>>],
                           groups, iterable),
                 "import_statements")
    /\ imported' = ImportedAll(iterable)
    /\ pc' = Returned(t)
    /\ ncalls' = IF iterable = <<>> THEN ncalls + 1 ELSE ncalls + Len(iterable)
    /\ UNCHANGED <<groups, mutex, producerVars, poolVars, restVars>>

\* SharedTable::with_candidate (lib.rs 453-461): the lock is taken and the
\* closure is entered with the candidate
WithCandidate(t, digest) ==
    /\ CanCall(t)
    /\ mutex' = Some(t)
    /\ pc' = [pc EXCEPT ![t] = "in_closure"]
    /\ ret' = [op |-> "with_candidate", value |-> get_candidate(table, digest)]
    /\ ncalls' = ncalls + 1
    /\ UNCHANGED <<groups, table, proposed_digest, checked_validity,
                   checked_availability, router, imported, producerVars, poolVars, restVars>>

\* the closure calls a locking operation of the same shared table
ClosureCalls(t) ==
    /\ pc[t] = "in_closure"
    /\ pc' = [pc EXCEPT ![t] = "locking"]
    /\ UNCHANGED <<groups, table, proposed_digest, checked_validity,
                   checked_availability, router, mutex, ret, imported, ncalls,
                   producerVars, poolVars, restVars>>

\* the closure returns: with_candidate returns and its guard is dropped
WithCandidateReturns(t) ==
    /\ pc[t] = "in_closure"
    /\ mutex' = None
    /\ pc' = [pc EXCEPT ![t] = "idle"]
    /\ UNCHANGED <<groups, table, proposed_digest, checked_validity,
                   checked_availability, router, ret, imported, ncalls,
                   producerVars, poolVars, restVars>>

\* SharedTable::get_misbehavior (lib.rs 463-466)
GetMisbehavior(t) ==
    /\ CanCall(t)
    /\ ret' = [op |-> "get_misbehavior", value |-> get_misbehavior(table)]
    /\ pc' = Returned(t)
    /\ ncalls' = ncalls + 1
    /\ UNCHANGED <<groups, table, proposed_digest, checked_validity,
                   checked_availability, router, mutex, imported, producerVars, poolVars, restVars>>

\* SharedTable::fill_batch (lib.rs 468-471)
FillBatch(t) ==
    /\ CanCall(t)
    /\ ret' = [op |-> "fill_batch", value |-> fill_batch(table)]
    /\ pc' = Returned(t)
    /\ ncalls' = ncalls + 1
    /\ UNCHANGED <<groups, table, proposed_digest, checked_validity,
                   checked_availability, router, mutex, imported, producerVars, poolVars, restVars>>

\* SharedTable::proposed_hash (lib.rs 473-476)
ProposedHash(t) ==
    /\ CanCall(t)
    /\ ret' = [op |-> "proposed_hash", value |-> proposed_digest]
    /\ pc' = Returned(t)
    /\ ncalls' = ncalls + 1
    /\ UNCHANGED <<groups, table, proposed_digest, checked_validity,
                   checked_availability, router, mutex, imported, producerVars, poolVars, restVars>>

\* The parts of the state a specification does not use stay as they start.
ProducerIdle ==
    /\ producer = DefaultProducer
    /\ inner_block = [state |-> "Pending", item |-> None]
    /\ inner_extr = [state |-> "Pending", item |-> None]
    /\ poll_result = [kind |-> "NotPolled", item |-> None]

PoolIdle ==
    /\ data = <<>>
    /\ drained = <<>>
    /\ added = <<>>

\* the threads that share one InherentsPool
Threads == {"p1", "p2", "p3"}
IdleThread == [pc |-> "idle", item |-> None, taken |-> <<>>]

\* InherentsPool::default, no thread in a call
ConcIdle ==
    /\ pool_lock = None
    /\ threads = [t \in Threads |-> IdleThread]
    /\ effects = <<>>
    /\ drains = <<>>

\* InherentData::new
EmptyInherentData == [id \in {} |-> 0]

InherentIdle == inherent_data = EmptyInherentData

\* make_group_info not called
GroupIdle ==
    /\ duty_roster = [validator_duty |-> <<>>, guarantor_duty |-> <<>>]
    /\ authority_list = <<>>
    /\ group_info = None

\* nothing signed
SignIdle ==
    /\ sign_args = None
    /\ signed_out = None

\* evaluate_proposal not called
EvalIdle ==
    /\ eval_args = None
    /\ evaluation = None
    /\ evaluated = <<>>

\* no CreateProposal
CreateIdle ==
    /\ clock = 0
    /\ collation_fetch = [state |-> "Pending", item |-> None]
    /\ created = [kind |-> "NoFuture", at |-> ""]
    /\ local_candidate = {}

\* what an import_misbehavior call was given and handed to pool.import
NotCalled ==
    [called |-> FALSE, misbehavior |-> <<>>, pending |-> <<>>, imported |-> <<>>]

\* import_misbehavior not called
MisIdle ==
    /\ tx_pool = <<>>
    /\ chain_index = None
    /\ submitted = NotCalled

\* no thread has called into the transaction pool
Callers == {"m1", "m2", "p1"}
IdleCaller == [pc |-> "idle", next_index |-> 0, todo |-> <<>>, seen |-> <<>>]
TxIdle ==
    /\ tx_lock = None
    /\ callers = [t \in Callers |-> IdleCaller]

\* the runtime storage: FreeBalance and the existential deposit of the
\* balances module, CodeOf and StorageOf of the contract module
Accounts == {"a1", "a2"}
Locations == {"k1"}
EmptyDb ==
    [existential_deposit |-> 0,
     balance |-> [a \in Accounts |-> 0],
     code |-> [a \in Accounts |-> <<>>],
     storage |-> [a \in Accounts |-> [k \in Locations |-> None]]]

\* OverlayAccountDb::new (account_db.rs 97-102): an empty ChangeSet.
\* overlay.a is the local of an overlay over DirectAccountDb, overlay.b the
\* local of an overlay over that one (None while there is none), and
\* overlay.writes counts the calls made on them.
NewChangeSet == [a \in {} |-> 0]
NoOverlay == [a |-> NewChangeSet, b |-> None, writes |-> 0]

DbIdle ==
    /\ db = EmptyDb
    /\ db_call = None
    /\ overlay = NoOverlay

\* CreateProposal::propose not called
ProposeIdle ==
    /\ pending_txs = <<>>
    /\ proposed = None

MoreIdle ==
    /\ TxIdle
    /\ DbIdle
    /\ ProposeIdle

RestIdle ==
    /\ MoreIdle
    /\ ConcIdle
    /\ InherentIdle
    /\ GroupIdle
    /\ SignIdle
    /\ EvalIdle
    /\ CreateIdle
    /\ MisIdle

\* SharedTable::new (lib.rs 380-390) on the groups of a roster
TableNew(roster) ==
    /\ groups = make_group_info(roster, Authorities).map
    /\ table = EmptyTable
    /\ proposed_digest = None
    /\ checked_validity = {}
    /\ checked_availability = {}

TableIdle ==
    /\ groups = <<>>
    /\ table = EmptyTable
    /\ proposed_digest = None
    /\ checked_validity = {}
    /\ checked_availability = {}
    /\ router = EmptyRouter
    /\ mutex = None
    /\ pc = [t \in Tasks |-> "idle"]
    /\ ret = [op |-> "new", value |-> None]
    /\ imported = [s \in RemoteStatements |-> 0]
    /\ ncalls = 0

Init ==
    /\ \E roster \in Rosters : TableNew(roster)
    /\ router = EmptyRouter
    /\ mutex = None
    /\ pc = [t \in Tasks |-> "idle"]
    /\ ret = [op |-> "new", value |-> None]
    /\ imported = [s \in RemoteStatements |-> 0]
    /\ ncalls = 0
    /\ ProducerIdle
    /\ PoolIdle
    /\ RestIdle

Next ==
    \E t \in Tasks :
        \/ \E s \in RemoteStatements, src \in Sources : ImportStatement(t, s, src)
        \/ \E s \in Statements : SignAndImport(t, s)
        \/ \E b \in Batches : ImportStatements(t, b)
        \/ \E d \in Digests : WithCandidate(t, d)
        \/ ClosureCalls(t)
        \/ WithCandidateReturns(t)
        \/ GetMisbehavior(t)
        \/ FillBatch(t)
        \/ ProposedHash(t)

Spec == Init /\ [][Next]_vars

--------------------------------------------------------------------------
(* StatementProducer::poll (lib.rs 309-358).  The two fetches are futures  *)
(* of the router, each inside a futures-0.1 Fuse.  inner_block and         *)
(* inner_extr are the states of the router's futures: "Pending",           *)
(* "Ready" with the payload fetched, or "Failed".                          *)

BlockDatas == {"bd1", "bd2"}
Extrinsics == {"ex1", "ex2"}

NotReady == [kind |-> "NotReady", item |-> None]
Ready(x) == [kind |-> "Ready", item |-> Some(x)]
Err == [kind |-> "Err", item |-> None]

\* Future::poll of the router's future
InnerPoll(inner) ==
    IF inner.state = "Ready" THEN Ready(Unwrap(inner.item))
    ELSE IF inner.state = "Failed" THEN Err
    ELSE NotReady

\* Fuse::poll (futures 0.1): a future that has completed is dropped, and the
\* Fuse answers NotReady from then on
FusePoll(fuse, inner) ==
    IF fuse.future = None THEN [fuse |-> fuse, result |-> NotReady]
    ELSE IF InnerPoll(inner).kind = "NotReady" THEN [fuse |-> fuse, result |-> NotReady]
    ELSE [fuse |-> FuseTerminated, result |-> InnerPoll(inner)]

\* Mutant: the availability statement is made when either payload is there.
MakesAvailabilityEither(produced) ==
    IsSome(produced.block_data) \/ IsSome(produced.extrinsic)

\* line 349
MakesAvailability(produced) ==
    IsSome(produced.block_data) /\ IsSome(produced.extrinsic)

\* lines 347-357: the end of a poll
PollFinish(p, done) ==
    IF done
    THEN [producer |-> [p EXCEPT !.produced_statements = DefaultProducedStatements],
          result |-> Ready(IF MakesAvailability(p.produced_statements)
                           THEN [p.produced_statements EXCEPT
                                    !.availability =
                                        Some(Available(Unwrap(p.candidate_digest)))]
                           ELSE p.produced_statements)]
    ELSE [producer |-> p, result |-> NotReady]

\* lines 336-345: the extrinsic fetch is polled
PollExtrinsicResult(p, done, r) ==
    IF r.result.kind = "Err"
    THEN [producer |-> [p EXCEPT !.fetch_extrinsic = Some(r.fuse)], result |-> Err]
    ELSE IF r.result.kind = "Ready"
    THEN PollFinish([p EXCEPT !.fetch_extrinsic = Some(r.fuse),
                              !.produced_statements.extrinsic = r.result.item], done)
    ELSE PollFinish(p, FALSE)

PollExtrinsic(p, done, ie) ==
    IF IsSome(p.fetch_extrinsic)
    THEN PollExtrinsicResult(p, done, FusePoll(Unwrap(p.fetch_extrinsic), ie))
    ELSE PollFinish(p, done)

\* lines 323-334: the block data fetch is polled
PollBlockDataResult(p, ie, r) ==
    IF r.result.kind = "Err"
    THEN [producer |-> [p EXCEPT !.fetch_block_data = Some(r.fuse)], result |-> Err]
    ELSE IF r.result.kind = "Ready"
    THEN PollExtrinsic([p EXCEPT !.fetch_block_data = Some(r.fuse),
                                 !.produced_statements.block_data = r.result.item],
                       TRUE, ie)
    ELSE PollExtrinsic(p, FALSE, ie)

PollBlockData(p, ib, ie) ==
    IF IsSome(p.fetch_block_data)
    THEN PollBlockDataResult(p, ie, FusePoll(Unwrap(p.fetch_block_data), ib))
    ELSE PollExtrinsic(p, TRUE, ie)

\* StatementProducer::poll
poll(p, ib, ie) ==
    IF p.candidate_digest = None
    THEN [producer |-> [p EXCEPT !.produced_statements = DefaultProducedStatements],
          result |-> Ready(p.produced_statements)]
    ELSE PollBlockData(p, ib, ie)

PollDone(r) ==
    /\ producer' = r.producer
    /\ poll_result' = r.result

\* the task that owns the producer polls it, until the future has resolved
Poll ==
    /\ poll_result.kind \notin {"Ready", "Err"}
    /\ PollDone(poll(producer, inner_block, inner_extr))
    /\ UNCHANGED <<inner_block, inner_extr, tableVars, poolVars, restVars>>

\* the router's block data future completes with a payload
BlockDataArrives(bd) ==
    /\ IsSome(producer.fetch_block_data)
    /\ inner_block.state = "Pending"
    /\ inner_block' = [state |-> "Ready", item |-> Some(bd)]
    /\ UNCHANGED <<producer, inner_extr, poll_result, tableVars, poolVars, restVars>>

\* the router's block data future fails
BlockDataFails ==
    /\ IsSome(producer.fetch_block_data)
    /\ inner_block.state = "Pending"
    /\ inner_block' = [state |-> "Failed", item |-> None]
    /\ UNCHANGED <<producer, inner_extr, poll_result, tableVars, poolVars, restVars>>

\* the router's extrinsic future completes with a payload
ExtrinsicArrives(ex) ==
    /\ IsSome(producer.fetch_extrinsic)
    /\ inner_extr.state = "Pending"
    /\ inner_extr' = [state |-> "Ready", item |-> Some(ex)]
    /\ UNCHANGED <<producer, inner_block, poll_result, tableVars, poolVars, restVars>>

\* the router's extrinsic future fails
ExtrinsicFails ==
    /\ IsSome(producer.fetch_extrinsic)
    /\ inner_extr.state = "Pending"
    /\ inner_extr' = [state |-> "Failed", item |-> None]
    /\ UNCHANGED <<producer, inner_block, poll_result, tableVars, poolVars, restVars>>

\* The producers import_statement returns (lines 221-271): the blank one,
\* and one per digest and per pair of checks, the candidate being known.
ProducerInit ==
    /\ TableIdle
    /\ PoolIdle
    /\ RestIdle
    /\ \/ producer = DefaultProducer
       \/ \E d \in Digests, cv \in BOOLEAN, ca \in BOOLEAN :
              producer = ArmProducer(Inner, EmptyRouter, d, cv, ca,
                                     Some(ReceiptOf(d))).producer
    /\ inner_block = [state |-> "Pending", item |-> None]
    /\ inner_extr = [state |-> "Pending", item |-> None]
    /\ poll_result = [kind |-> "NotPolled", item |-> None]

ProducerNext ==
    \/ Poll
    \/ \E bd \in BlockDatas : BlockDataArrives(bd)
    \/ BlockDataFails
    \/ \E ex \in Extrinsics : ExtrinsicArrives(ex)
    \/ ExtrinsicFails

\* The producer is polled again and again by the task that drives it.
ProducerSpec == ProducerInit /\ [][ProducerNext]_vars /\ WF_vars(Poll)

--------------------------------------------------------------------------
(* InherentsPool (pool.rs 26-56)                                           *)

Items == {"i1", "i2", "i3"}

\* InherentsPool::add: self.data.lock().push(extrinsic)
add(d, extrinsic) == Append(d, extrinsic)

\* Mutant: the contents are returned and kept.
drain_clone(d) == [data |-> d, returned |-> d]

\* InherentsPool::drain: mem::replace(&mut *self.data.lock(), vec![])
drain(d) == [data |-> <<>>, returned |-> d]

Add(x) ==
    /\ Len(data) < MaxAdds
    /\ data' = add(data, x)
    /\ added' = Append(added, x)
    /\ UNCHANGED <<drained, tableVars, producerVars, restVars>>

Drained(r) ==
    /\ data' = r.data
    /\ drained' = r.returned

Drain ==
    /\ Drained(drain(data))
    /\ added' = <<>>
    /\ UNCHANGED <<tableVars, producerVars, restVars>>

PoolInit ==
    /\ data = <<>>
    /\ drained = <<>>
    /\ added = <<>>
    /\ TableIdle
    /\ ProducerIdle
    /\ RestIdle

PoolNext ==
    \/ \E x \in Items : Add(x)
    \/ Drain

PoolSpec == PoolInit /\ [][PoolNext]_vars

--------------------------------------------------------------------------
(* InherentsPool shared by threads (pool.rs 48-56).  Every call takes the  *)
(* Mutex of data for one statement: lock(), the access to the Vec, and the *)
(* release of the guard at the end of the statement.  mem::replace reads   *)
(* the old Vec and stores the new one.                                     *)

concOthers == <<tableVars, producerVars, drained, added, inherentVars, groupVars,
                signVars, evalVars, createVars, misVars, moreVars>>

\* Mutant: lock() does not wait for the thread that holds the mutex.
data_lock_racy(t) == TRUE

\* self.data.lock(): granted when no thread holds the mutex
data_lock(t) == pool_lock = None

\* the items that an add call has been given so far
ItemsGiven ==
    {effects[i] : i \in 1..Len(effects)}
        \cup UNION {threads[t].item : t \in Threads}

\* the drain calls started so far
DrainsStarted ==
    Len(drains) + Cardinality({t \in Threads : threads[t].pc \in {"drain_take", "drain_store"}})

\* add(x), line 50: self.data.lock()
AddLock(t, x) ==
    /\ threads[t].pc = "idle"
    /\ x \notin ItemsGiven
    /\ data_lock(t)
    /\ pool_lock' = Some(t)
    /\ threads' = [threads EXCEPT ![t] = [pc |-> "add_push", item |-> Some(x), taken |-> <<>>]]
    /\ UNCHANGED <<data, effects, drains, concOthers>>

\* add(x), line 50: .push(extrinsic)
AddPush(t) ==
    /\ threads[t].pc = "add_push"
    /\ data' = add(data, Unwrap(threads[t].item))
    /\ effects' = Append(effects, Unwrap(threads[t].item))
    /\ threads' = [threads EXCEPT ![t].pc = "add_unlock"]
    /\ UNCHANGED <<pool_lock, drains, concOthers>>

\* add(x), line 50-51: the guard is dropped and add returns
AddReturn(t) ==
    /\ threads[t].pc = "add_unlock"
    /\ pool_lock' = None
    /\ threads' = [threads EXCEPT ![t] = IdleThread]
    /\ UNCHANGED <<data, effects, drains, concOthers>>

\* drain(), line 54: self.data.lock()
DrainLock(t) ==
    /\ threads[t].pc = "idle"
    /\ DrainsStarted < MaxDrains
    /\ data_lock(t)
    /\ pool_lock' = Some(t)
    /\ threads' = [threads EXCEPT ![t].pc = "drain_take"]
    /\ UNCHANGED <<data, effects, drains, concOthers>>

\* drain(), line 54: mem::replace reads the Vec it will return
DrainTake(t) ==
    /\ threads[t].pc = "drain_take"
    /\ threads' = [threads EXCEPT ![t].pc = "drain_store",
                                  ![t].taken = drain(data).returned]
    /\ UNCHANGED <<pool_lock, data, effects, drains, concOthers>>

\* drain(), line 54: mem::replace stores vec![]
DrainStore(t) ==
    /\ threads[t].pc = "drain_store"
    /\ data' = drain(data).data
    /\ drains' = Append(drains, threads[t].taken)
    /\ threads' = [threads EXCEPT ![t].pc = "drain_unlock"]
    /\ UNCHANGED <<pool_lock, effects, concOthers>>

\* drain(), line 54-55: the guard is dropped and drain returns what it took
DrainReturn(t) ==
    /\ threads[t].pc = "drain_unlock"
    /\ pool_lock' = None
    /\ threads' = [threads EXCEPT ![t] = IdleThread]
    /\ UNCHANGED <<data, effects, drains, concOthers>>

ConcPoolInit ==
    /\ MoreIdle
    /\ TableIdle
    /\ ProducerIdle
    /\ PoolIdle
    /\ RestIdle

ConcPoolNext ==
    \E t \in Threads :
        \/ \E x \in 1..MaxAdds : AddLock(t, x)
        \/ AddPush(t)
        \/ AddReturn(t)
        \/ DrainLock(t)
        \/ DrainTake(t)
        \/ DrainStore(t)
        \/ DrainReturn(t)

ConcPoolSpec == ConcPoolInit /\ [][ConcPoolNext]_vars

--------------------------------------------------------------------------
(* drain_to (pool.rs 67-96, the test of the pool).  The pool holds         *)
(* InherentData bundles; drain_to drains the pool and puts every entry of  *)
(* every drained bundle into the target, in drain order.                   *)

drainToOthers == <<tableVars, producerVars, added, concVars, groupVars, signVars,
                   evalVars, createVars, misVars, moreVars>>

InherentIdentifiers == {"testinh0", "testinh1", "testinh2"}
InherentValues == {8, 12}

\* the bundles the pool is given
Bundles ==
    { [testinh0 |-> 12], [testinh1 |-> 12], [testinh1 |-> 8],
      [testinh0 |-> 8, testinh2 |-> 12] }

\* an entry of the target is replaced by the entry of a drained bundle
PutAll(into, bundle) ==
    [id \in DOMAIN into \cup DOMAIN bundle |->
        IF id \in DOMAIN bundle THEN bundle[id] ELSE into[id]]

RECURSIVE MergeAll(_, _)
MergeAll(into, bundles) ==
    IF bundles = <<>> THEN into
    ELSE MergeAll(PutAll(into, Head(bundles)), Tail(bundles))

\* drain_to(target): the pool is drained into target
drain_to(d, into) ==
    [data |-> drain(d).data, into |-> MergeAll(into, drain(d).returned),
     returned |-> drain(d).returned]

\* pool.add(data) of a bundle
AddBundle(b) ==
    /\ Len(data) < MaxBundles
    /\ data' = add(data, b)
    /\ UNCHANGED <<drained, inherent_data, drainToOthers>>

\* data.put_data(identifier, &value) of an identifier the target lacks
PutData(id, v) ==
    /\ id \notin DOMAIN inherent_data
    /\ inherent_data' = PutAll(inherent_data, [i \in {id} |-> v])
    /\ UNCHANGED <<data, drained, drainToOthers>>

\* let mut data = InherentData::new()
NewData ==
    /\ inherent_data # EmptyInherentData
    /\ inherent_data' = EmptyInherentData
    /\ UNCHANGED <<data, drained, drainToOthers>>

DrainedTo(r) ==
    /\ data' = r.data
    /\ inherent_data' = r.into
    /\ drained' = r.returned

\* pool.drain_to(&mut data)
DrainTo ==
    /\ DrainedTo(drain_to(data, inherent_data))
    /\ UNCHANGED drainToOthers

DrainToInit ==
    /\ MoreIdle
    /\ TableIdle
    /\ ProducerIdle
    /\ PoolIdle
    /\ RestIdle

DrainToNext ==
    \/ \E b \in Bundles : AddBundle(b)
    \/ \E id \in InherentIdentifiers, v \in InherentValues : PutData(id, v)
    \/ NewData
    \/ DrainTo

DrainToSpec == DrainToInit /\ [][DrainToNext]_vars

--------------------------------------------------------------------------
(* make_group_info (lib.rs 479-522) applied to duty rosters and authority  *)
(* lists of every length up to MaxAuthorities.                             *)

groupOthers == <<tableVars, producerVars, poolVars, concVars, inherentVars,
                 signVars, evalVars, createVars, misVars, moreVars>>

AuthorityNames == <<"L", "A", "B", "C", "D", "E">>
Chains == {Relay, Parachain(1), Parachain(2)}

\* the duty arrays of a length
DutyArrays(n) == [1..n -> Chains]

\* let group_info = make_group_info(duty_roster, authorities) (line 553)
MakeGroupInfo ==
    /\ group_info = None
    /\ group_info' = Some(make_group_info(duty_roster, authority_list))
    /\ UNCHANGED <<duty_roster, authority_list, groupOthers>>

GroupInfoInit ==
    /\ MoreIdle
    /\ TableIdle
    /\ ProducerIdle
    /\ PoolIdle
    /\ ConcIdle
    /\ InherentIdle
    /\ SignIdle
    /\ EvalIdle
    /\ CreateIdle
    /\ MisIdle
    /\ \E n \in 0..MaxAuthorities : authority_list = SubSeq(AuthorityNames, 1, n)
    /\ \E n \in 0..MaxAuthorities, m \in 0..MaxAuthorities :
           \E v \in DutyArrays(n), g \in DutyArrays(m) :
               duty_roster = [validator_duty |-> v, guarantor_duty |-> g]
    /\ group_info = None

GroupInfoNext == MakeGroupInfo

GroupInfoSpec == GroupInfoInit /\ [][GroupInfoNext]_vars

--------------------------------------------------------------------------
(* sign_table_statement and TableContext::sign_statement (lib.rs 158-192)  *)
(* applied to every statement, key and parent hash of the model.           *)

signOthers == <<tableVars, producerVars, poolVars, concVars, inherentVars,
                groupVars, evalVars, createVars, misVars, moreVars>>

ParentHashes == {ParentHash, OtherParent}

\* the four kinds of statement about both candidates
SignableStatements ==
    {Candidate(r) : r \in Receipts}
        \cup UNION {{Valid(d), Invalid(d), Available(d)} : d \in Digests}

\* sign_table_statement(&statement, &key, &parent_hash)
SignTableStatement ==
    /\ signed_out = None
    /\ signed_out' =
           Some([op |-> "sign_table_statement",
                 value |-> sign_table_statement(Unwrap(sign_args).statement,
                                                Unwrap(sign_args).key,
                                                Unwrap(sign_args).parent_hash)])
    /\ UNCHANGED <<sign_args, signOthers>>

\* context.sign_statement(statement), the context holding LocalKey and
\* ParentHash
SignStatement ==
    /\ signed_out = None
    /\ signed_out' = Some([op |-> "sign_statement",
                           value |-> sign_statement(Unwrap(sign_args).statement)])
    /\ UNCHANGED <<sign_args, signOthers>>

SignInit ==
    /\ MoreIdle
    /\ TableIdle
    /\ ProducerIdle
    /\ PoolIdle
    /\ ConcIdle
    /\ InherentIdle
    /\ GroupIdle
    /\ EvalIdle
    /\ CreateIdle
    /\ MisIdle
    /\ \E s \in SignableStatements, k \in AuthoritySet, p \in ParentHashes :
           sign_args = Some([statement |-> s, key |-> k, parent_hash |-> p])
    /\ signed_out = None

SignNext ==
    \/ SignTableStatement
    \/ SignStatement

SignSpec == SignInit /\ [][SignNext]_vars

--------------------------------------------------------------------------
(* evaluate_proposal (lib.rs 766-806).  A proposal is                      *)
(* [polkadot, extrinsics, parent_hash, timestamp]: whether the block       *)
(* decodes as a Polkadot block, the encoded size of each extrinsic, and    *)
(* the header's parent hash and timestamp.  The client is the Result its   *)
(* evaluate_block gives.  now is current_timestamp(), seconds since the    *)
(* epoch, far below the range of Timestamp.                                *)

evalOthers == <<tableVars, producerVars, poolVars, concVars, inherentVars,
                groupVars, signVars, createVars, misVars, moreVars>>

\* line 91
MAX_TRANSACTIONS_SIZE == 4 * 1024 * 1024
\* line 773
MAX_TIMESTAMP_DRIFT == 4

\* Ok(value) and Err(error) of Result<bool, Error>
OkResult(value) == [ok |-> TRUE, value |-> Some(value), err |-> <<>>]
Bail(error) == [ok |-> FALSE, value |-> None, err |-> error]

\* what evaluate_proposal returns, and the blocks it gave to the client
Evaluated(result, blocks) == [result |-> result, blocks |-> blocks]

RECURSIVE transactions_size(_)
\* lines 780-782: the fold over the extrinsics' encoded lengths
transactions_size(extrinsics) ==
    IF extrinsics = <<>> THEN 0
    ELSE Head(extrinsics) + transactions_size(Tail(extrinsics))

\* Mutant: a proposal of exactly the maximum size is refused too.
TooLargeInclusive(size) == size >= MAX_TRANSACTIONS_SIZE

\* line 784
TooLarge(size) == size > MAX_TRANSACTIONS_SIZE

\* Mutant: a timestamp at the edge of the drift is refused too.
InFutureInclusive(block_timestamp, now) ==
    block_timestamp >= now + MAX_TIMESTAMP_DRIFT

\* line 799
InFuture(block_timestamp, now) == block_timestamp > now + MAX_TIMESTAMP_DRIFT

\* lines 803-805
EvaluateBlock(proposal, client) ==
    Evaluated(IF client.ok THEN OkResult(TRUE) ELSE Bail(client.err), <<proposal>>)

\* Mutant: the parent hash is looked at before the size.
evaluate_proposal_parent_first(proposal, client, now, parent_hash) ==
    IF ~proposal.polkadot
    THEN Evaluated(Bail(<<"ProposalNotForPolkadot">>), <<>>)
    ELSE IF proposal.parent_hash # parent_hash
    THEN Evaluated(Bail(<<"WrongParentHash", parent_hash, proposal.parent_hash>>), <<>>)
    ELSE IF TooLarge(transactions_size(proposal.extrinsics))
    THEN Evaluated(Bail(<<"ProposalTooLarge", transactions_size(proposal.extrinsics)>>),
                   <<>>)
    ELSE IF InFuture(proposal.timestamp, now)
    THEN Evaluated(Bail(<<"TimestampInFuture">>), <<>>)
    ELSE EvaluateBlock(proposal, client)

evaluate_proposal(proposal, client, now, parent_hash) ==
    IF ~proposal.polkadot
    THEN Evaluated(Bail(<<"ProposalNotForPolkadot">>), <<>>)
    ELSE IF TooLarge(transactions_size(proposal.extrinsics))
    THEN Evaluated(Bail(<<"ProposalTooLarge", transactions_size(proposal.extrinsics)>>),
                   <<>>)
    ELSE IF proposal.parent_hash # parent_hash
    THEN Evaluated(Bail(<<"WrongParentHash", parent_hash, proposal.parent_hash>>), <<>>)
    ELSE IF InFuture(proposal.timestamp, now)
    THEN Evaluated(Bail(<<"TimestampInFuture">>), <<>>)
    ELSE EvaluateBlock(proposal, client)

\* the extrinsics of the proposals, by encoded size
ExtrinsicLists ==
    { <<>>, <<1>>, <<4194303, 1>>, <<4194304>>, <<4194304, 1>>,
      <<2097152, 2097153>>, <<4194305>> }
Timestamps == {0, 4, 5, 100, 104, 105}
Nows == {0, 100}
Clients == { [ok |-> TRUE, err |-> <<>>], [ok |-> FALSE, err |-> <<"Client">>] }

Proposals ==
    [polkadot : BOOLEAN, extrinsics : ExtrinsicLists, parent_hash : ParentHashes,
     timestamp : Timestamps]

EvaluationDone(r) ==
    /\ evaluation' = Some(r.result)
    /\ evaluated' = r.blocks

\* Proposer::evaluate (lines 615-617)
Evaluate ==
    /\ evaluation = None
    /\ EvaluationDone(evaluate_proposal(Unwrap(eval_args).proposal,
                                        Unwrap(eval_args).client,
                                        Unwrap(eval_args).now, ParentHash))
    /\ UNCHANGED <<eval_args, evalOthers>>

EvalInit ==
    /\ MoreIdle
    /\ TableIdle
    /\ ProducerIdle
    /\ PoolIdle
    /\ ConcIdle
    /\ InherentIdle
    /\ GroupIdle
    /\ SignIdle
    /\ CreateIdle
    /\ MisIdle
    /\ \E b \in Proposals, n \in Nows, c \in Clients :
           eval_args = Some([proposal |-> b, now |-> n, client |-> c])
    /\ evaluation = None
    /\ evaluated = <<>>

EvalNext == Evaluate

EvalSpec == EvalInit /\ [][EvalNext]_vars

--------------------------------------------------------------------------
(* Proposer::propose and CreateProposal (lib.rs 610-612, 675-764).  The    *)
(* proposer is made at time 0 (ProposerFactory::init); the clock counts    *)
(* seconds.  unimplemented!() panics.                                      *)

createOthers == <<producerVars, poolVars, concVars, inherentVars, groupVars,
                  signVars, evalVars, misVars, moreVars>>

\* parachain_empty_duration of the factory (line 560), in seconds
parachain_empty_duration == 2

\* the group has a candidate that can be included
HasIncludable(t, group) ==
    \E d \in Digests :
        /\ IsSome(t.candidates[d])
        /\ Unwrap(t.candidates[d]).group_id = group
        /\ Unwrap(t.candidates[d]).includable

\* the earliest time the dynamic inclusion allows a block to be baked: the
\* start if every parachain has a candidate, the start plus
\* parachain_empty_duration otherwise
earliest_bake(g, t) ==
    IF \A group \in DOMAIN g : HasIncludable(t, group)
    THEN 0
    ELSE parachain_empty_duration

\* the collations the local collator may come up with
Collations == {[receipt |-> r] : r \in Receipts}

Panicked(at) == [kind |-> "Panicked", at |-> at]

\* a second passes
Tick ==
    /\ clock < MaxClock
    /\ clock' = clock + 1
    /\ UNCHANGED <<collation_fetch, created, local_candidate, tableVars, createOthers>>

\* the collation future completes
CollationArrives(c) ==
    /\ collation_fetch.state = "Pending"
    /\ collation_fetch' = [state |-> "Ready", item |-> Some(c)]
    /\ UNCHANGED <<clock, created, local_candidate, tableVars, createOthers>>

\* the collation future fails
CollationFails ==
    /\ collation_fetch.state = "Pending"
    /\ collation_fetch' = [state |-> "Failed", item |-> None]
    /\ UNCHANGED <<clock, created, local_candidate, tableVars, createOthers>>

\* Proposer::propose (lines 610-612): unimplemented!()
Propose ==
    /\ created.kind = "NoFuture"
    /\ created' = Panicked("propose")
    /\ UNCHANGED <<clock, collation_fetch, local_candidate, tableVars, createOthers>>

\* lines 750-754: the collation is ready
PollCollationReady(hash) ==
    /\ local_candidate' = local_candidate \cup {hash}
    /\ Commit(InnerImportStatement(SetProposed(Inner, Valid(hash)), groups, router,
                                   sign_statement(Valid(hash)), Local),
              "sign_and_import", Valid(hash))
    /\ ncalls' = ncalls + 1
    /\ collation_fetch' = [state |-> "Taken", item |-> None]
    /\ UNCHANGED <<groups, mutex, pc, imported>>

\* CreateProposal::poll (lines 747-763): the collation future is polled,
\* then unimplemented!()
CreatePoll ==
    /\ created.kind = "NotPolled"
    /\ IF collation_fetch.state = "Ready"
       THEN /\ lock("t1")
            /\ PollCollationReady(ReceiptHash(Unwrap(collation_fetch.item).receipt))
       ELSE UNCHANGED <<collation_fetch, local_candidate, tableVars>>
    /\ created' = Panicked("poll")
    /\ UNCHANGED <<clock, createOthers>>

\* A proposer made by ProposerFactory::init (lines 547-575), alone or with
\* a CreateProposal made of its fields.
CreateInit ==
    /\ MoreIdle
    /\ \E roster \in Rosters : TableNew(roster)
    /\ router = EmptyRouter
    /\ mutex = None
    /\ pc = [t \in Tasks |-> "idle"]
    /\ ret = [op |-> "new", value |-> None]
    /\ imported = [s \in RemoteStatements |-> 0]
    /\ ncalls = 0
    /\ ProducerIdle
    /\ PoolIdle
    /\ ConcIdle
    /\ InherentIdle
    /\ GroupIdle
    /\ SignIdle
    /\ EvalIdle
    /\ MisIdle
    /\ clock = 0
    /\ collation_fetch = [state |-> "Pending", item |-> None]
    /\ created \in {[kind |-> "NoFuture", at |-> ""], [kind |-> "NotPolled", at |-> ""]}
    /\ local_candidate = {}

\* the statements the router hands to the table while the proposer runs
CandidateStatements ==
    {SignedBy(Candidate(R1), "A", ParentHash),
     SignedBy(Candidate(R2), "A", ParentHash),
     SignedBy(Valid("h1"), "B", ParentHash)}

CreateNext ==
    \/ Tick
    \/ \E c \in Collations : CollationArrives(c)
    \/ CollationFails
    \/ Propose
    \/ CreatePoll
    \/ \E s \in CandidateStatements : ImportStatement("t2", s, Remote(Some("A")))
    \/ ProposedHash("t2")

CreateSpec == CreateInit /\ [][CreateNext]_vars

--------------------------------------------------------------------------
(* Proposer::import_misbehavior (lib.rs 619-671).  The transaction pool is *)
(* the sequence of its pending transactions [signed, index, function], in  *)
(* the order pool.pending yields them; pool.import puts a transaction at   *)
(* its end.  The client is the Result of client.index(parent_id, local_id).*)

misOthers == <<tableVars, producerVars, poolVars, concVars, inherentVars,
               groupVars, signVars, evalVars, createVars, moreVars>>

MisbehaviorKinds == {"ProposeOutOfTurn", "DoublePropose", "DoublePrepare", "DoubleCommit"}
Targets == {"A", "B"}

\* the entries (target, misbehavior) of a list
MisbehaviorEntries == [target : Targets, kind : MisbehaviorKinds]

\* the lists of at most n entries
MisbehaviorLists(n) == UNION {[1..k -> MisbehaviorEntries] : k \in 0..n}

\* lines 629-631: the last pending transaction signed by local_id
LastSignedBy(pending, id) ==
    IF \E i \in 1..Len(pending) : pending[i].signed = id
    THEN Some(pending[CHOOSE i \in 1..Len(pending) :
                        /\ pending[i].signed = id
                        /\ \A j \in (i + 1)..Len(pending) : pending[j].signed # id])
    ELSE None

\* lines 629-633: cur_index, a Result
cur_index(pending, client_index) ==
    IF IsSome(LastSignedBy(pending, local_id))
    THEN [ok |-> TRUE, value |-> Unwrap(LastSignedBy(pending, local_id)).index]
    ELSE client_index

\* Mutant: the first report takes the index that is in use.
FirstIndexInUse(cur) == cur

\* line 636: Ok(cur_index) => cur_index + 1
FirstIndex(cur) == cur + 1

\* lines 649-656: MisbehaviorKind of an entry that is reported
ReportKind(kind) ==
    IF kind = "DoublePrepare" THEN "BftDoublePrepare" ELSE "BftDoubleCommit"

\* lines 666-667: the extrinsic with the local key's signature of it
UncheckedExtrinsic(extrinsic) ==
    [extrinsic |-> extrinsic,
     signature |-> [signer |-> LocalKey, message |-> extrinsic]]

\* lines 645-667: the signed extrinsic for an entry
ReportExtrinsic(entry, next_index) ==
    UncheckedExtrinsic(
        [signed |-> local_id, index |-> next_index,
         function |-> [call |-> "report_misbehavior", parent_hash |-> ParentHash,
                       target |-> entry.target,
                       misbehavior |-> ReportKind(entry.kind)]])

\* pool.import(uxt), line 669
PoolImport(pool, uxt) ==
    Append(pool, [signed |-> uxt.extrinsic.signed, index |-> uxt.extrinsic.index,
                  function |-> uxt.extrinsic.function])

RECURSIVE ReportLoop(_, _, _, _)
\* lines 644-670: the loop over the list
ReportLoop(pool, imports, next_index, misbehavior) ==
    IF misbehavior = <<>> THEN [pool |-> pool, imported |-> imports]
    ELSE IF Head(misbehavior).kind \in {"ProposeOutOfTurn", "DoublePropose"}
    THEN ReportLoop(pool, imports, next_index, Tail(misbehavior))
    ELSE ReportLoop(PoolImport(pool, ReportExtrinsic(Head(misbehavior), next_index)),
                    Append(imports, ReportExtrinsic(Head(misbehavior), next_index)),
                    next_index + 1, Tail(misbehavior))

\* lines 635-642: the loop is entered unless the index is unknown
ReportFrom(pool, cur, misbehavior) ==
    IF cur.ok THEN ReportLoop(pool, <<>>, FirstIndex(cur.value), misbehavior)
    ELSE [pool |-> pool, imported |-> <<>>]

import_misbehavior(pool, client_index, misbehavior) ==
    ReportFrom(pool, cur_index(pool, client_index), misbehavior)

\* the pending transactions the pool starts with
Function0 == [call |-> "transfer"]
Pendings ==
    { <<>>,
      << [signed |-> "L", index |-> 7, function |-> Function0] >>,
      << [signed |-> "A", index |-> 3, function |-> Function0] >>,
      << [signed |-> "L", index |-> 2, function |-> Function0],
         [signed |-> "A", index |-> 9, function |-> Function0],
         [signed |-> "L", index |-> 3, function |-> Function0] >>,
      << [signed |-> "L", index |-> 5, function |-> Function0],
         [signed |-> "A", index |-> 1, function |-> Function0] >> }

\* what client.index gives
ClientIndexes ==
    { [ok |-> TRUE, value |-> 0], [ok |-> TRUE, value |-> 10],
      [ok |-> FALSE, value |-> 0] }

MisbehaviorImported(r, misbehavior) ==
    /\ tx_pool' = r.pool
    /\ submitted' = [called |-> TRUE, misbehavior |-> misbehavior,
                     pending |-> tx_pool, imported |-> r.imported]

ImportMisbehavior(misbehavior) ==
    /\ ~submitted.called
    /\ MisbehaviorImported(import_misbehavior(tx_pool, Unwrap(chain_index),
                                              misbehavior),
                           misbehavior)
    /\ UNCHANGED <<chain_index, misOthers>>

MisInit ==
    /\ MoreIdle
    /\ TableIdle
    /\ ProducerIdle
    /\ PoolIdle
    /\ ConcIdle
    /\ InherentIdle
    /\ GroupIdle
    /\ SignIdle
    /\ EvalIdle
    /\ CreateIdle
    /\ tx_pool \in Pendings
    /\ \E i \in ClientIndexes : chain_index = Some(i)
    /\ submitted = NotCalled

MisNext == \E misbehavior \in MisbehaviorLists(MaxReports) : ImportMisbehavior(misbehavior)

MisSpec == MisInit /\ [][MisNext]_vars

--------------------------------------------------------------------------
(* The transaction pool shared by threads (lib.rs 593, 619-671, 702-728).  *)
(* import_misbehavior takes the pool's Mutex at line 625 and the guard     *)
(* lives to the end of the function; CreateProposal::propose takes it at   *)
(* line 703 for the block of lines 702-728.  A caller is                   *)
(* [pc, next_index, todo, seen]: where it is, its next_index, the entries  *)
(* its loop has still to visit, and the pending transactions it read.      *)

txOthers == <<tableVars, producerVars, poolVars, concVars, inherentVars,
              groupVars, signVars, evalVars, createVars, submitted, dbVars, proposeVars>>

\* Mutant: lock() hands the pool out while another thread holds it.
transaction_pool_lock_racy(t) == TRUE

\* self.transaction_pool.lock() (lines 625, 703) returns when no thread
\* holds the guard
transaction_pool_lock(t) == tx_lock = None

\* the lists two concurrent calls are given
ConcurrentLists ==
    UNION {[1..k -> [target : {"A"}, kind : {"DoublePropose", "DoubleCommit"}]] :
           k \in 0..MaxConcReports}

\* line 625
MisLock(t, misbehavior) ==
    /\ callers[t].pc = "idle"
    /\ transaction_pool_lock(t)
    /\ tx_lock' = Some(t)
    /\ callers' = [callers EXCEPT ![t].pc = "locked", ![t].todo = misbehavior]
    /\ UNCHANGED <<tx_pool, chain_index, txOthers>>

\* lines 626-642: next_index, or the return when the index is unknown
MisIndex(t) ==
    /\ callers[t].pc = "locked"
    /\ IF cur_index(tx_pool, Unwrap(chain_index)).ok
       THEN /\ callers' = [callers EXCEPT
                  ![t].pc = "loop",
                  ![t].next_index =
                      FirstIndex(cur_index(tx_pool, Unwrap(chain_index)).value)]
            /\ UNCHANGED tx_lock
       ELSE /\ callers' = [callers EXCEPT ![t].pc = "done"]
            /\ tx_lock' = None
    /\ UNCHANGED <<tx_pool, chain_index, txOthers>>

\* lines 644-670: one iteration of the loop
MisReport(t) ==
    /\ callers[t].pc = "loop"
    /\ callers[t].todo # <<>>
    /\ tx_pool' = ReportLoop(tx_pool, <<>>, callers[t].next_index,
                             <<Head(callers[t].todo)>>).pool
    /\ callers' = [callers EXCEPT
           ![t].todo = Tail(@),
           ![t].next_index = @ + Len(tx_pool') - Len(tx_pool)]
    /\ UNCHANGED <<tx_lock, chain_index, txOthers>>

\* line 671: the guard is dropped
MisReturn(t) ==
    /\ callers[t].pc = "loop"
    /\ callers[t].todo = <<>>
    /\ callers' = [callers EXCEPT ![t].pc = "done"]
    /\ tx_lock' = None
    /\ UNCHANGED <<tx_pool, chain_index, txOthers>>

\* line 703
ProposeLock(t) ==
    /\ callers[t].pc = "idle"
    /\ transaction_pool_lock(t)
    /\ tx_lock' = Some(t)
    /\ callers' = [callers EXCEPT ![t].pc = "locked"]
    /\ UNCHANGED <<tx_pool, chain_index, txOthers>>

\* lines 704-728: the pending transactions are read and the guard is dropped
ProposePending(t) ==
    /\ callers[t].pc = "locked"
    /\ callers' = [callers EXCEPT ![t].pc = "done", ![t].seen = tx_pool]
    /\ tx_lock' = None
    /\ UNCHANGED <<tx_pool, chain_index, txOthers>>

TxInit ==
    /\ TableIdle
    /\ ProducerIdle
    /\ PoolIdle
    /\ ConcIdle
    /\ InherentIdle
    /\ GroupIdle
    /\ SignIdle
    /\ EvalIdle
    /\ CreateIdle
    /\ TxIdle
    /\ DbIdle
    /\ ProposeIdle
    /\ tx_pool \in Pendings
    /\ \E i \in ClientIndexes : chain_index = Some(i)
    /\ submitted = NotCalled

TxNext ==
    \/ \E t \in {"m1", "m2"}, misbehavior \in ConcurrentLists : MisLock(t, misbehavior)
    \/ \E t \in {"m1", "m2"} : MisIndex(t)
    \/ \E t \in {"m1", "m2"} : MisReport(t)
    \/ \E t \in {"m1", "m2"} : MisReturn(t)
    \/ ProposeLock("p1")
    \/ ProposePending("p1")

TxSpec == TxInit /\ [][TxNext]_vars

--------------------------------------------------------------------------
(* Contract accounts in the runtime storage (account_db.rs 55-90,          *)
(* 187-223).  The balances module is used as account_db.rs documents it    *)
(* (lines 69-75, 197-204): setting a free balance below the existential    *)
(* deposit kills the account, which calls OnFreeBalanceZero and so removes *)
(* CodeOf and StorageOf of the account; otherwise the balance is updated.  *)
(* A missing FreeBalance reads as 0, a missing CodeOf as the empty Vec.    *)

dbOthers == <<tableVars, producerVars, poolVars, concVars, inherentVars,
              groupVars, signVars, evalVars, createVars, misVars, txVars,
              proposeVars, overlay>>

Balances == 0..BalanceMax
Codes == {<<>>, <<1>>}
Values == {<<7>>, <<8>>}

\* balances::Module::free_balance
free_balance(d, who) == d.balance[who]

\* Saturating::saturating_add of T::Balance
saturating_add(a, b) == IF a + b > BalanceMax THEN BalanceMax ELSE a + b

\* lines 220-223
purge_account(d, who) ==
    [d EXCEPT !.code[who] = <<>>,
              !.storage[who] = [k \in Locations |-> None]]

\* balances::Module::set_free_balance: [db, outcome]
set_free_balance(d, who, balance) ==
    IF balance < d.existential_deposit
    THEN [db |-> purge_account([d EXCEPT !.balance[who] = 0], who),
          outcome |-> "AccountKilled"]
    ELSE [db |-> [d EXCEPT !.balance[who] = balance], outcome |-> "Updated"]

\* balances::Module::set_free_balance_creating: as set_free_balance, the
\* account need not exist
set_free_balance_creating(d, who, balance) == set_free_balance(d, who, balance)

\* lines 199-205, on the storage left by line 195
NullifySuicidee(d, who) ==
    IF set_free_balance(d, who, 0).outcome = "Updated"
    THEN purge_account(set_free_balance(d, who, 0).db, who)
    ELSE set_free_balance(d, who, 0).db

\* Mutant: an account that zeroing does not kill keeps its data.
commit_suicide_unpurged(d, who, inherent) ==
    set_free_balance(
        set_free_balance_creating(
            d, inherent,
            saturating_add(free_balance(d, inherent), free_balance(d, who))).db,
        who, 0).db

\* lines 189-214
commit_suicide(d, who, inherent) ==
    NullifySuicidee(
        set_free_balance_creating(
            d, inherent,
            saturating_add(free_balance(d, inherent), free_balance(d, who))).db,
        who)

\* the storages the runtime can be in: no account holds less than the
\* existential deposit
Dbs ==
    { d \in [existential_deposit : {0, 2},
             balance : [Accounts -> Balances],
             code : [Accounts -> Codes],
             storage : [Accounts -> [Locations -> {None, Some(<<7>>)}]]] :
        \A a \in Accounts :
            d.balance[a] = 0 \/ d.balance[a] >= d.existential_deposit }

DbCalled(op, args) ==
    db_call' = Some([op |-> op, args |-> args, before |-> db])

CommitSuicide(who, inherent) ==
    /\ db_call = None
    /\ db' = commit_suicide(db, who, inherent)
    /\ DbCalled("commit_suicide", <<who, inherent>>)
    /\ UNCHANGED dbOthers

PurgeAccount(who) ==
    /\ db_call = None
    /\ db' = purge_account(db, who)
    /\ DbCalled("purge_account", <<who>>)
    /\ UNCHANGED dbOthers

SuicideInit ==
    /\ TableIdle
    /\ ProducerIdle
    /\ PoolIdle
    /\ ConcIdle
    /\ InherentIdle
    /\ GroupIdle
    /\ SignIdle
    /\ EvalIdle
    /\ CreateIdle
    /\ MisIdle
    /\ TxIdle
    /\ ProposeIdle
    /\ db \in Dbs
    /\ db_call = None
    /\ overlay = NoOverlay

SuicideNext ==
    \/ \E who, inherent \in Accounts : CommitSuicide(who, inherent)
    \/ \E who \in Accounts : PurgeAccount(who)

SuicideSpec == SuicideInit /\ [][SuicideNext]_vars

--------------------------------------------------------------------------
(* CreateProposal::propose (lib.rs 693-735).  A pending transaction is     *)
(* [hash, size, valid]: its hash, its encoded size and whether             *)
(* block_builder.push_extrinsic accepts it.  built tells whether           *)
(* client.build_block succeeds.                                            *)

proposeOthers == <<tableVars, producerVars, poolVars, concVars, inherentVars,
                   groupVars, signVars, evalVars, createVars, misVars, txVars,
                   dbVars>>

\* line 708
TooLargeToInclude(size) == size > MAX_TRANSACTIONS_SIZE

\* line 713
CapReached(pending_size, size) == pending_size + size >= MAX_TRANSACTIONS_SIZE

RECURSIVE PendingLoop(_, _, _, _)
\* lines 706-723: the loop from the transactions still to visit;
\* left is what the loop had not visited when it ended
PendingLoop(pending, pending_size, block_builder, unqueue_invalid) ==
    IF pending = <<>>
    THEN [block |-> block_builder, unqueue_invalid |-> unqueue_invalid, left |-> <<>>]
    ELSE IF TooLargeToInclude(Head(pending).size)
    THEN PendingLoop(Tail(pending), pending_size, block_builder,
                     Append(unqueue_invalid, Head(pending).hash))
    ELSE IF CapReached(pending_size, Head(pending).size)
    THEN [block |-> block_builder, unqueue_invalid |-> unqueue_invalid,
          left |-> pending]
    ELSE IF Head(pending).valid
    THEN PendingLoop(Tail(pending), pending_size + Head(pending).size,
                     Append(block_builder, Head(pending)), unqueue_invalid)
    ELSE PendingLoop(Tail(pending), pending_size, block_builder,
                     Append(unqueue_invalid, Head(pending).hash))

\* lines 725-727: pool.remove of every hash
RemoveAll(pool, hashes) ==
    SelectSeq(pool, LAMBDA tx : \A i \in 1..Len(hashes) : hashes[i] # tx.hash)

\* lines 693-735: [ok, block, left, pool]
propose(pool, built) ==
    IF ~built
    THEN [ok |-> FALSE, block |-> <<>>, left |-> <<>>, pool |-> pool]
    ELSE [ok |-> TRUE,
          block |-> PendingLoop(pool, 0, <<>>, <<>>).block,
          left |-> PendingLoop(pool, 0, <<>>, <<>>).left,
          pool |-> RemoveAll(pool, PendingLoop(pool, 0, <<>>, <<>>).unqueue_invalid)]

\* the encoded sizes of the model's transactions
TxSizes == {1, 2097152, 4194303, MAX_TRANSACTIONS_SIZE, MAX_TRANSACTIONS_SIZE + 1}

\* the pools of n transactions, the hash of each being its place
PendingPools(n) ==
    { [i \in 1..n |-> [hash |-> i, size |-> f[i].size, valid |-> f[i].valid]] :
        f \in [1..n -> [size : TxSizes, valid : BOOLEAN]] }

CreateProposalPropose(built) ==
    /\ proposed = None
    /\ proposed' = Some([result |-> propose(pending_txs, built), pending |-> pending_txs])
    /\ pending_txs' = propose(pending_txs, built).pool
    /\ UNCHANGED proposeOthers

ProposeInit ==
    /\ TableIdle
    /\ ProducerIdle
    /\ PoolIdle
    /\ ConcIdle
    /\ InherentIdle
    /\ GroupIdle
    /\ SignIdle
    /\ EvalIdle
    /\ CreateIdle
    /\ MisIdle
    /\ TxIdle
    /\ DbIdle
    /\ pending_txs \in UNION {PendingPools(n) : n \in 0..MaxPending}
    /\ proposed = None

ProposeNext == \E built \in BOOLEAN : CreateProposalPropose(built)

ProposeSpec == ProposeInit /\ [][ProposeNext]_vars

--------------------------------------------------------------------------
(* The producers the shared table returns, polled (lib.rs 210-273,         *)
(* 309-358, 399-427).  The task that called import_statement hands the     *)
(* producer it got to the executor, which polls it while the router's      *)
(* futures complete; the table goes on importing.                          *)

\* the producer returned by the last import_statement starts being polled
Spawn ==
    /\ ret.op = "import_statement"
    /\ ret' = [op |-> "spawned", value |-> ret.value]
    /\ producer' = ret.value
    /\ inner_block' = [state |-> "Pending", item |-> None]
    /\ inner_extr' = [state |-> "Pending", item |-> None]
    /\ poll_result' = [kind |-> "NotPolled", item |-> None]
    /\ UNCHANGED <<groups, table, proposed_digest, checked_validity,
                   checked_availability, router, mutex, pc, imported, ncalls,
                   poolVars, restVars>>

DrivenNext ==
    \/ \E s \in CandidateStatements : ImportStatement("t1", s, Remote(Some("A")))
    \/ \E r \in Receipts : SignAndImport("t2", Candidate(r))
    \/ Spawn
    \/ Poll
    \/ \E bd \in BlockDatas : BlockDataArrives(bd)
    \/ BlockDataFails
    \/ \E ex \in Extrinsics : ExtrinsicArrives(ex)
    \/ ExtrinsicFails

DrivenSpec == Init /\ [][DrivenNext]_vars

--------------------------------------------------------------------------
(* ChangeSet and DirectAccountDb::commit (account_db.rs 28-90).  A         *)
(* ChangeSet is a function from the accounts it holds to ChangeEntry       *)
(* records; the storage of an entry is a function from the locations it    *)
(* holds to Option values.  BTreeMap::into_iter visits the accounts in     *)
(* the order of AccountOrder.                                              *)

\* ChangeEntry::default (lines 35-43)
DefaultChangeEntry == [balance |-> None, code |-> None, storage |-> [k \in {} |-> None]]

AccountOrder == <<"a1", "a2">>

\* lines 78-80
WriteCode(d, address, code) ==
    IF IsSome(code) THEN [d EXCEPT !.code[address] = Unwrap(code)] ELSE d

\* lines 81-87: insert for Some(value), remove for None
WriteStorage(d, address, storage) ==
    [d EXCEPT !.storage[address] =
        [k \in Locations |->
            IF k \in DOMAIN storage
            THEN (IF IsSome(storage[k]) THEN Some(Unwrap(storage[k])) ELSE None)
            ELSE @[k]]]

\* Mutant: the code and the storage of a killed account are written.
ApplyEntryAfterKill(d, address, changed) ==
    WriteStorage(
        WriteCode(IF IsSome(changed.balance)
                  THEN set_free_balance_creating(d, address, Unwrap(changed.balance)).db
                  ELSE d,
                  address, changed.code),
        address, changed.storage)

\* lines 68-87: one iteration of the loop
ApplyEntry(d, address, changed) ==
    IF IsSome(changed.balance)
    THEN IF set_free_balance_creating(d, address, Unwrap(changed.balance)).outcome
                = "AccountKilled"
         THEN set_free_balance_creating(d, address, Unwrap(changed.balance)).db
         ELSE WriteStorage(
                  WriteCode(
                      set_free_balance_creating(d, address, Unwrap(changed.balance)).db,
                      address, changed.code),
                  address, changed.storage)
    ELSE WriteStorage(WriteCode(d, address, changed.code), address, changed.storage)

RECURSIVE DirectCommitFrom(_, _, _)
\* lines 67-88: the loop from the i-th account on
DirectCommitFrom(d, s, i) ==
    IF i > Len(AccountOrder) THEN d
    ELSE IF AccountOrder[i] \in DOMAIN s
    THEN DirectCommitFrom(ApplyEntry(d, AccountOrder[i], s[AccountOrder[i]]), s, i + 1)
    ELSE DirectCommitFrom(d, s, i + 1)

\* DirectAccountDb::commit (lines 66-89)
direct_commit(d, s) == DirectCommitFrom(d, s, 1)

\* the change entries and the change sets of the model
StorageChanges ==
    UNION {[ks -> {None} \cup {Some(v) : v \in Values}] : ks \in SUBSET Locations}
ChangeEntries ==
    [balance : {None} \cup {Some(b) : b \in Balances},
     code : {None} \cup {Some(c) : c \in Codes},
     storage : StorageChanges]
ChangeSets == UNION {[as -> ChangeEntries] : as \in SUBSET Accounts}

\* a storage where every account has funds, code and storage, and the
\* empty one
FullDb ==
    [existential_deposit |-> 0,
     balance |-> [a \in Accounts |-> BalanceMax],
     code |-> [a \in Accounts |-> <<1>>],
     storage |-> [a \in Accounts |-> [k \in Locations |-> Some(<<7>>)]]]
SeedDbs ==
    {[d EXCEPT !.existential_deposit = e] : d \in {EmptyDb, FullDb}, e \in {0, 2}}

DirectCommit(s) ==
    /\ db_call = None
    /\ db' = direct_commit(db, s)
    /\ DbCalled("commit", s)
    /\ UNCHANGED dbOthers

DirectInit ==
    /\ TableIdle
    /\ ProducerIdle
    /\ PoolIdle
    /\ ConcIdle
    /\ InherentIdle
    /\ GroupIdle
    /\ SignIdle
    /\ EvalIdle
    /\ CreateIdle
    /\ MisIdle
    /\ TxIdle
    /\ ProposeIdle
    /\ db \in SeedDbs
    /\ db_call = None
    /\ overlay = NoOverlay

DirectNext == \E s \in ChangeSets : DirectCommit(s)

DirectSpec == DirectInit /\ [][DirectNext]_vars

--------------------------------------------------------------------------
(* OverlayAccountDb (account_db.rs 92-181).  The local ChangeSet of an     *)
(* overlay is a function as in DirectAccountDb::commit.  What a database   *)
(* answers to every query is a record [storage, code, balance] of          *)
(* functions; the overlay is given the answer of self.underlying.  An      *)
(* overlay borrows its underlying database, so the overlay below is        *)
(* written only while no overlay is over it.                               *)

overlayOthers == <<tableVars, producerVars, poolVars, concVars, inherentVars,
                   groupVars, signVars, evalVars, createVars, misVars, txVars,
                   proposeVars, db>>

\* DirectAccountDb::get_storage, get_code and get_balance (lines 57-65)
DirectReads(d) == [storage |-> d.storage, code |-> d.code, balance |-> d.balance]

\* lines 138-145
overlay_get_storage(local, under, account, location) ==
    IF account \in DOMAIN local /\ location \in DOMAIN local[account].storage
    THEN local[account].storage[location]
    ELSE under

\* lines 146-152
overlay_get_code(local, under, account) ==
    IF account \in DOMAIN local /\ IsSome(local[account].code)
    THEN Unwrap(local[account].code)
    ELSE under

\* lines 153-159
overlay_get_balance(local, under, account) ==
    IF account \in DOMAIN local /\ IsSome(local[account].balance)
    THEN Unwrap(local[account].balance)
    ELSE under

\* the answers of an overlay over a database that answers under
OverlayReads(local, under) ==
    [storage |-> [a \in Accounts |-> [k \in Locations |->
                     overlay_get_storage(local, under.storage[a][k], a, k)]],
     code |-> [a \in Accounts |-> overlay_get_code(local, under.code[a], a)],
     balance |-> [a \in Accounts |-> overlay_get_balance(local, under.balance[a], a)]]

\* BTreeMap::insert
Insert(map, key, value) ==
    [k \in DOMAIN map \cup {key} |-> IF k = key THEN value ELSE map[k]]

\* entry(account).or_insert(Default::default())
EntryOf(local, account) ==
    IF account \in DOMAIN local THEN local[account] ELSE DefaultChangeEntry

\* lines 108-120
set_storage(local, account, location, value) ==
    Insert(local, account,
           [EntryOf(local, account) EXCEPT !.storage = Insert(@, location, value)])

\* lines 121-127
set_code(local, account, code) ==
    Insert(local, account, [EntryOf(local, account) EXCEPT !.code = Some(code)])

\* lines 128-134
set_balance(local, account, balance) ==
    Insert(local, account, [EntryOf(local, account) EXCEPT !.balance = Some(balance)])

\* Mutant: the balance and the code of the change set replace the entry's
\* even when they are None.
MergeEntryErasing(value, changed) ==
    [balance |-> changed.balance,
     code |-> changed.code,
     storage |-> [k \in DOMAIN value.storage \cup DOMAIN changed.storage |->
                     IF k \in DOMAIN changed.storage THEN changed.storage[k]
                     ELSE value.storage[k]]]

\* lines 165-174: Entry::Occupied
MergeEntry(value, changed) ==
    [balance |-> IF IsSome(changed.balance) THEN changed.balance ELSE value.balance,
     code |-> IF IsSome(changed.code) THEN changed.code ELSE value.code,
     storage |-> [k \in DOMAIN value.storage \cup DOMAIN changed.storage |->
                     IF k \in DOMAIN changed.storage THEN changed.storage[k]
                     ELSE value.storage[k]]]

\* Mutant: the entries of addresses that the overlay does not hold are lost.
overlay_commit_occupied(local, s) ==
    [a \in DOMAIN local |->
        IF a \in DOMAIN s THEN MergeEntry(local[a], s[a]) ELSE local[a]]

\* OverlayAccountDb::commit (lines 160-180); the entries of different
\* addresses do not touch each other
overlay_commit(local, s) ==
    [a \in DOMAIN local \cup DOMAIN s |->
        IF a \notin DOMAIN s THEN local[a]
        ELSE IF a \in DOMAIN local THEN MergeEntry(local[a], s[a])
        ELSE s[a]]

\* the local ChangeSet of overlay o, and the overlays after a call on o
LocalOf(o) == IF o = "a" THEN overlay.a ELSE Unwrap(overlay.b)
WithLocal(o, local) ==
    IF o = "a" THEN [overlay EXCEPT !.a = local, !.writes = @ + 1]
    ELSE [overlay EXCEPT !.b = Some(local), !.writes = @ + 1]

\* overlay o exists and is not borrowed
Writable(o) ==
    /\ overlay.writes < MaxWrites
    /\ IF o = "a" THEN overlay.b = None ELSE overlay.b # None

\* what the calls of the model write
WrittenValues == {None, Some(<<8>>)}
WrittenCodes == {<<2>>}
WrittenBalances == {0, 1}
CommittedSets ==
    { Insert(NewChangeSet, "a1",
             [DefaultChangeEntry EXCEPT !.storage = Insert(@, "k1", None)]),
      Insert(NewChangeSet, "a1", [DefaultChangeEntry EXCEPT !.balance = Some(2)]),
      Insert(Insert(NewChangeSet, "a1",
                    [balance |-> None, code |-> Some(<<3>>),
                     storage |-> Insert(DefaultChangeEntry.storage, "k1", Some(<<9>>))]),
             "a2", [DefaultChangeEntry EXCEPT !.balance = Some(0)]) }

SetStorage(o, account, location, value) ==
    /\ Writable(o)
    /\ overlay' = WithLocal(o, set_storage(LocalOf(o), account, location, value))
    /\ DbCalled("set_storage", <<o, account, location, value>>)
    /\ UNCHANGED overlayOthers

SetCode(o, account, code) ==
    /\ Writable(o)
    /\ overlay' = WithLocal(o, set_code(LocalOf(o), account, code))
    /\ DbCalled("set_code", <<o, account, code>>)
    /\ UNCHANGED overlayOthers

SetBalance(o, account, balance) ==
    /\ Writable(o)
    /\ overlay' = WithLocal(o, set_balance(LocalOf(o), account, balance))
    /\ DbCalled("set_balance", <<o, account, balance>>)
    /\ UNCHANGED overlayOthers

\* commit of a change set on the overlay over DirectAccountDb
OverlayCommit(s) ==
    /\ Writable("a")
    /\ overlay' = WithLocal("a", overlay_commit(overlay.a, s))
    /\ DbCalled("commit", s)
    /\ UNCHANGED overlayOthers

\* OverlayAccountDb::new(&a)
NewOverlay ==
    /\ Writable("a")
    /\ overlay' = [overlay EXCEPT !.b = Some(NewChangeSet), !.writes = @ + 1]
    /\ DbCalled("new", <<>>)
    /\ UNCHANGED overlayOthers

\* a.commit(b.into_change_set())
CommitOverlay ==
    /\ Writable("b")
    /\ overlay' = [a |-> overlay_commit(overlay.a, Unwrap(overlay.b)),
                   b |-> None, writes |-> overlay.writes + 1]
    /\ DbCalled("into_change_set", Unwrap(overlay.b))
    /\ UNCHANGED overlayOthers

\* b is dropped
DropOverlay ==
    /\ overlay.b # None
    /\ overlay' = [overlay EXCEPT !.b = None]
    /\ DbCalled("drop", <<>>)
    /\ UNCHANGED overlayOthers

OverlayInit ==
    /\ TableIdle
    /\ ProducerIdle
    /\ PoolIdle
    /\ ConcIdle
    /\ InherentIdle
    /\ GroupIdle
    /\ SignIdle
    /\ EvalIdle
    /\ CreateIdle
    /\ MisIdle
    /\ TxIdle
    /\ ProposeIdle
    /\ db \in {EmptyDb, FullDb}
    /\ db_call = None
    /\ overlay = NoOverlay

OverlayNext ==
    \/ \E o \in {"a", "b"}, a \in Accounts, k \in Locations, v \in WrittenValues :
           SetStorage(o, a, k, v)
    \/ \E o \in {"a", "b"}, a \in Accounts, c \in WrittenCodes : SetCode(o, a, c)
    \/ \E o \in {"a", "b"}, a \in Accounts, b \in WrittenBalances : SetBalance(o, a, b)
    \/ \E s \in CommittedSets : OverlayCommit(s)
    \/ NewOverlay
    \/ CommitOverlay
    \/ DropOverlay

OverlaySpec == OverlayInit /\ [][OverlayNext]_vars

--------------------------------------------------------------------------
(* Properties of the shared table (specification Spec)                     *)

\* the group of the candidate a digest names
GroupOf(d) == ReceiptOf(d).parachain_index

\* a step in which one import_statement call returned
ImportReturned == ncalls' = ncalls + 1 /\ ret'.op = "import_statement"

\* C1: over any sequence of imports, router.fetch_block_data is called at
\* most once per candidate digest, and so is router.fetch_extrinsic_data.
C1_FetchAtMostOncePerDigest ==
    \A d \in Digests :
        /\ router.fetch_block_data[d] <= 1
        /\ router.fetch_extrinsic_data[d] <= 1

\* C1 witness: block data of h1 has been fetched once, and a later import
\* about h1 by a validity guarantor's table returned a producer with no
\* block data fetch.
C1_Witness ==
    /\ router.fetch_block_data["h1"] = 1
    /\ router.fetch_extrinsic_data["h1"] = 1
    /\ ret.op = "import_statement"
    /\ ret.value.candidate_digest = Some("h1")
    /\ ret.value.fetch_block_data = None
    /\ ret.value.fetch_extrinsic = None
    /\ is_member_of(groups, local_id, GroupOf("h1"))
    /\ proposed_digest = None

\* C2: once sign_and_import(statement) has returned, the signed statement is
\* among the statements the table holds, a local candidate is known to the
\* table, and no fetch was started.
C2_SignAndImportImports ==
    [][(ncalls' = ncalls + 1 /\ ret'.op = "sign_and_import") =>
           /\ sign_statement(ret'.value) \in fill_batch(table')
           /\ ret'.value.kind = "Candidate" =>
                  get_candidate(table', ret'.value.digest) = ret'.value.receipt
           /\ router' = router]_vars

\* C4: a candidate is includable iff its Valid votes (the proposer's implicit
\* one counted) reach the group's needed_validity, it has no Invalid vote and
\* its availability votes reach the group's needed_availability.
C4_IncludableIffQuorums ==
    \A d \in Digests :
        IsSome(table.candidates[d]) =>
            /\ Unwrap(table.candidates[d]).group_id \in DOMAIN groups
            /\ Unwrap(table.candidates[d]).includable <=>
                  /\ ValidCount(Unwrap(table.candidates[d]))
                        >= groups[Unwrap(table.candidates[d]).group_id].needed_validity
                  /\ InvalidCount(Unwrap(table.candidates[d])) = 0
                  /\ AvailableCount(Unwrap(table.candidates[d]))
                        >= groups[Unwrap(table.candidates[d]).group_id].needed_availability

\* C4 witness: a candidate of a group that needs two validity votes is
\* includable, and another state has one that is not.
C4_Witness ==
    /\ IsSome(table.candidates["h1"])
    /\ Unwrap(table.candidates["h1"]).includable
    /\ groups[1].needed_validity = 2
    /\ ValidCount(Unwrap(table.candidates["h1"])) = 2
    /\ AvailableCount(Unwrap(table.candidates["h1"])) >= 1

\* the sender of a signed statement is authorized for the statement's group
AuthorizedSender(g, signed) ==
    IF signed.statement.kind = "Available"
    THEN is_availability_guarantor_of(g, signed.sender, GroupOf(signed.statement.digest))
    ELSE is_member_of(g, signed.sender, GroupOf(signed.statement.digest))

\* C5: importing from remote a validly signed statement of an authorized
\* sender that was imported before changes no vote, no misbehavior record,
\* not proposed_digest, not the checked sets, and starts no fetch.
C5_SecondImportChangesNothing ==
    [][\A s \in RemoteStatements :
          ( /\ imported[s] >= 1
            /\ imported'[s] = imported[s] + 1
            /\ ImportReturned
            /\ VerifySignature(s, ParentHash)
            /\ AuthorizedSender(groups, s) )
          => /\ table'.candidates = table.candidates
             /\ table'.pending = table.pending
             /\ table'.misbehavior = table.misbehavior
             /\ proposed_digest' = proposed_digest
             /\ checked_validity' = checked_validity
             /\ checked_availability' = checked_availability
             /\ router' = router
             /\ ret'.value.fetch_block_data = None
             /\ ret'.value.fetch_extrinsic = None]_vars

\* C5 witness: a counted Valid vote of an authorized sender has been imported
\* twice, the second import being the last operation.
C5_Witness ==
    /\ imported[SignedBy(Valid("h1"), "B", ParentHash)] = 2
    /\ IsSome(table.candidates["h1"])
    /\ Unwrap(table.candidates["h1"]).validity_votes["B"] = "Valid"
    /\ ret.op = "import_statement"
    /\ ret.value = DefaultProducer
    /\ ncalls = 3

\* C7: an import that yields a summary for d while proposed_digest = Some(d)
\* starts no block data fetch and leaves checked_validity alone; one about
\* another digest, the local node being a validity guarantor of the group
\* and d not checked yet, adds d to checked_validity.
C7_OwnCandidateNotChecked ==
    [][\A d \in Digests :
          (ImportReturned /\ ret'.value.candidate_digest = Some(d))
          => /\ proposed_digest = Some(d) =>
                    /\ ret'.value.fetch_block_data = None
                    /\ router'.fetch_block_data = router.fetch_block_data
                    /\ checked_validity' = checked_validity
             /\ ( /\ proposed_digest # Some(d)
                  /\ is_member_of(groups, local_id, GroupOf(d))
                  /\ d \notin checked_validity )
                => d \in checked_validity']_vars

\* C7 witness: an import about the locally proposed candidate h1 returned a
\* producer without a block data fetch on a validity guarantor's table, h1
\* not being in checked_validity.
C7_Witness ==
    /\ proposed_digest = Some("h1")
    /\ ret.op = "import_statement"
    /\ ret.value.candidate_digest = Some("h1")
    /\ ret.value.fetch_block_data = None
    /\ is_member_of(groups, local_id, GroupOf("h1"))
    /\ "h1" \notin checked_validity

\* C8: checked_validity is the set of digests whose block data fetch has
\* been started, checked_availability the set of those whose extrinsic fetch
\* has been started.
C8_CheckedSetsAreFetches ==
    /\ checked_validity = {d \in Digests : router.fetch_block_data[d] > 0}
    /\ checked_availability = {d \in Digests : router.fetch_extrinsic_data[d] > 0}

\* C8 witness: both fetches of h1 have been started, and of the locally
\* proposed h2, known to the table, only the extrinsic fetch.
C8_Witness ==
    /\ checked_validity = {"h1"}
    /\ checked_availability = {"h1", "h2"}
    /\ proposed_digest = Some("h2")
    /\ IsSome(table.candidates["h2"])

\* C9: a task that calls a locking operation from inside the closure given
\* to with_candidate stays in lock() for ever.
C9_NestedCallNeverReturns ==
    [][\A t \in Tasks : pc[t] = "locking" => pc'[t] = "locking"]_vars

\* C9 witness: a task sits in lock() while it holds the mutex itself.
C9_Witness ==
    \E t \in Tasks : pc[t] = "locking" /\ mutex = Some(t)

--------------------------------------------------------------------------
(* Properties of the statement producer (specification ProducerSpec)       *)

\* every fetch the producer is armed with has completed successfully
AllFetchesCompleted ==
    /\ IsSome(producer.fetch_block_data) => inner_block.state = "Ready"
    /\ IsSome(producer.fetch_extrinsic) => inner_extr.state = "Ready"

\* the producer has yielded, with the payload of every completed fetch
Yielded ==
    /\ poll_result.kind = "Ready"
    /\ IsSome(producer.fetch_block_data) =>
           Unwrap(poll_result.item).block_data = inner_block.item
    /\ IsSome(producer.fetch_extrinsic) =>
           Unwrap(poll_result.item).extrinsic = inner_extr.item

\* C3: a producer with a candidate digest that is polled again and again
\* yields once every armed fetch has completed successfully.
C3_ProducerEventuallyYields ==
    (IsSome(producer.candidate_digest) /\ AllFetchesCompleted) ~> Yielded

\* C6: a yielded ProducedStatements has an availability statement exactly
\* when it has both block data and extrinsic, the statement is then
\* Available(candidate_digest), and it has no validity statement.
C6_AvailabilityIffBothPayloads ==
    poll_result.kind = "Ready" =>
        /\ IsSome(Unwrap(poll_result.item).availability) <=>
              /\ IsSome(Unwrap(poll_result.item).block_data)
              /\ IsSome(Unwrap(poll_result.item).extrinsic)
        /\ IsSome(Unwrap(poll_result.item).availability) =>
              /\ IsSome(producer.candidate_digest)
              /\ Unwrap(poll_result.item).availability =
                     Some(Available(Unwrap(producer.candidate_digest)))
        /\ Unwrap(poll_result.item).validity = None

\* C6 witness: a producer has yielded block data, extrinsic and the
\* availability statement of its candidate.
C6_Witness ==
    /\ poll_result.kind = "Ready"
    /\ Unwrap(poll_result.item).block_data = Some("bd1")
    /\ Unwrap(poll_result.item).extrinsic = Some("ex2")
    /\ Unwrap(poll_result.item).availability = Some(Available("h2"))

--------------------------------------------------------------------------
(* Properties of the inherents pool (specification PoolSpec)               *)

\* C10: a drain returns the items added since the previous drain, in the
\* order they were added, and leaves the pool empty.
C10_DrainReturnsAddedInOrder ==
    [][Drain => (drained' = added /\ data' = <<>>)]_vars

\* C10 witness: a drain has just returned two different items, first added
\* first.
C10_Witness ==
    /\ drained = <<"i2", "i1">>
    /\ data = <<>>
    /\ added = <<>>

--------------------------------------------------------------------------
(* Properties of the pool shared by threads (specification ConcPoolSpec)   *)

RECURSIVE Flatten(_)
\* the concatenation of a sequence of sequences
Flatten(seqs) ==
    IF seqs = <<>> THEN <<>> ELSE Head(seqs) \o Flatten(Tail(seqs))

\* C11: with add and drain called by several threads, the items the drains
\* returned, drain after drain, followed by the items still pooled, are
\* the added items in the order their adds took effect: no item is lost,
\* none is returned twice, and every drain keeps the order.
C11_ConcurrentCallsAreAtomic ==
    Flatten(drains) \o data = effects

\* C11 witness: two drains by different calls returned items, the first
\* one two of them, and an item added since is pooled.
C11_Witness ==
    /\ Len(drains) = 2
    /\ Len(drains[1]) = 2
    /\ Len(drains[2]) = 1
    /\ Len(data) = 1
    /\ \E t \in Threads : threads[t].pc = "add_unlock"

--------------------------------------------------------------------------
(* Properties of drain_to (specification DrainToSpec)                      *)

\* the values the pooled bundles hold for an identifier
PooledValues(d, id) ==
    {d[i][id] : i \in {j \in 1..Len(d) : id \in DOMAIN d[j]}}

--------------------------------------------------------------------------
(* Properties of make_group_info (specification GroupInfoSpec)             *)

\* the indices a duty array assigns to parachain p
AssignedTo(duty, p) == {i \in 1..Len(duty) : duty[i] = Parachain(p)}

\* both duty arrays are as long as the authority list
LengthsMatch ==
    /\ Len(duty_roster.validator_duty) = Len(authority_list)
    /\ Len(duty_roster.guarantor_duty) = Len(authority_list)

\* n is half of k, rounded up
IsCeilHalf(n, k) == 2 * n >= k /\ 2 * n <= k + 1

\* the group of p is made of the authorities the roster assigns to it
GroupAsAssigned(info, p) ==
    /\ info.validity_guarantors =
           {authority_list[i] : i \in AssignedTo(duty_roster.validator_duty, p)}
    /\ info.availability_guarantors =
           {authority_list[i] : i \in AssignedTo(duty_roster.guarantor_duty, p)}
    /\ IsCeilHalf(info.needed_validity, Cardinality(info.validity_guarantors))
    /\ IsCeilHalf(info.needed_availability,
                  Cardinality(info.availability_guarantors))

\* C13: for duty arrays as long as the authorities, the map returned holds
\* group p iff an index is assigned Parachain(p) in one of the arrays; its
\* guarantor sets are the authorities at the indices assigned to p, and its
\* needed votes are half the size of each set, rounded up.
C13_GroupsAsAssigned ==
    (IsSome(group_info) /\ LengthsMatch) =>
        /\ Unwrap(group_info).ok
        /\ DOMAIN Unwrap(group_info).map =
               {p \in {1, 2} : AssignedTo(duty_roster.validator_duty, p)
                                  \cup AssignedTo(duty_roster.guarantor_duty, p) # {}}
        /\ \A p \in DOMAIN Unwrap(group_info).map :
               GroupAsAssigned(Unwrap(group_info).map[p], p)

\* C13 witness: three validity guarantors of parachain 1 need two votes,
\* and parachain 2 has one availability guarantor and no validity
\* guarantor.
C13_Witness ==
    /\ IsSome(group_info)
    /\ Unwrap(group_info).ok
    /\ DOMAIN Unwrap(group_info).map = {1, 2}
    /\ Unwrap(group_info).map[1].validity_guarantors = {"L", "A", "B"}
    /\ Unwrap(group_info).map[1].needed_validity = 2
    /\ Unwrap(group_info).map[2].validity_guarantors = {}
    /\ Unwrap(group_info).map[2].availability_guarantors = {"B"}
    /\ Unwrap(group_info).map[2].needed_availability = 1
    /\ duty_roster.guarantor_duty[1] = Relay

\* C14: make_group_info fails iff a duty array is not as long as the
\* authorities; the error is InvalidDutyRosterLength(authorities.len(),
\* length of the offending array), validator_duty being looked at first,
\* and a failure carries no group.
C14_InvalidDutyRosterLength ==
    IsSome(group_info) =>
        /\ Unwrap(group_info).ok <=> LengthsMatch
        /\ ~Unwrap(group_info).ok =>
               /\ Unwrap(group_info).map = <<>>
               /\ Unwrap(group_info).err =
                      <<"InvalidDutyRosterLength", Len(authority_list),
                        IF Len(duty_roster.validator_duty) # Len(authority_list)
                        THEN Len(duty_roster.validator_duty)
                        ELSE Len(duty_roster.guarantor_duty)>>

\* C14 witness: both arrays are off, by different lengths, and the error
\* names the validator array's.
C14_Witness ==
    /\ IsSome(group_info)
    /\ Len(authority_list) = 3
    /\ Len(duty_roster.validator_duty) = 2
    /\ Len(duty_roster.guarantor_duty) = 1
    /\ Unwrap(group_info).err = <<"InvalidDutyRosterLength", 3, 2>>

--------------------------------------------------------------------------
(* Properties of signing (specification SignSpec)                          *)

\* the message a verifier builds for a statement and a parent hash
SignedMessage(statement, parent_hash) == <<Encode(statement), parent_hash>>

\* C15: the signature of sign_table_statement(s, k, p) verifies under k
\* over encode(s) followed by p and over no encode(s) followed by another
\* parent hash; sign_statement signs against the parent hash of the context
\* and names the local key as sender.
C15_SignatureBoundToParent ==
    /\ (IsSome(signed_out) /\ Unwrap(signed_out).op = "sign_table_statement") =>
           /\ Verify(Unwrap(signed_out).value,
                     SignedMessage(Unwrap(sign_args).statement,
                                   Unwrap(sign_args).parent_hash),
                     Unwrap(sign_args).key)
           /\ \A p \in ParentHashes \ {Unwrap(sign_args).parent_hash} :
                  ~Verify(Unwrap(signed_out).value,
                          SignedMessage(Unwrap(sign_args).statement, p),
                          Unwrap(sign_args).key)
    /\ (IsSome(signed_out) /\ Unwrap(signed_out).op = "sign_statement") =>
           /\ Unwrap(signed_out).value.statement = Unwrap(sign_args).statement
           /\ Unwrap(signed_out).value.sender = local_id
           /\ Verify(Unwrap(signed_out).value.signature,
                     SignedMessage(Unwrap(sign_args).statement, ParentHash),
                     local_id)
           /\ ~Verify(Unwrap(signed_out).value.signature,
                      SignedMessage(Unwrap(sign_args).statement, OtherParent),
                      local_id)

\* C15 witness: a Candidate statement has been signed by A against the
\* other parent hash.
C15_Witness ==
    /\ IsSome(signed_out)
    /\ Unwrap(signed_out).op = "sign_table_statement"
    /\ Unwrap(sign_args) = [statement |-> Candidate(R1), key |-> "A",
                            parent_hash |-> OtherParent]
    /\ Unwrap(signed_out).value.signer = "A"

--------------------------------------------------------------------------
(* Properties of evaluate_proposal (specification EvalSpec)                *)

RECURSIVE SumOf(_)
\* the sum of a sequence of sizes
SumOf(sizes) == IF sizes = <<>> THEN 0 ELSE sizes[1] + SumOf(Tail(sizes))

\* the checks of an evaluated proposal that fail
FailsDecode == ~Unwrap(eval_args).proposal.polkadot
FailsSize == SumOf(Unwrap(eval_args).proposal.extrinsics) > 4194304
FailsParent == Unwrap(eval_args).proposal.parent_hash # ParentHash
FailsTimestamp ==
    Unwrap(eval_args).proposal.timestamp > Unwrap(eval_args).now + 4
FailsClient == ~Unwrap(eval_args).client.ok

\* the kind of the error returned, "" for Ok
ErrorKind ==
    IF Unwrap(evaluation).ok THEN "" ELSE Unwrap(evaluation).err[1]

\* C16: the result is that of the first check that fails, in the order
\* decode, size, parent hash, timestamp, client.evaluate_block; it is
\* Ok(true) iff none fails, never Ok(false), and the client is given the
\* block only when the four checks before it pass.
C16_FirstFailingCheck ==
    IsSome(evaluation) =>
        /\ FailsDecode => ErrorKind = "ProposalNotForPolkadot"
        /\ (~FailsDecode /\ FailsSize) => ErrorKind = "ProposalTooLarge"
        /\ (~FailsDecode /\ ~FailsSize /\ FailsParent) =>
               Unwrap(evaluation).err =
                   <<"WrongParentHash", ParentHash,
                     Unwrap(eval_args).proposal.parent_hash>>
        /\ (~FailsDecode /\ ~FailsSize /\ ~FailsParent /\ FailsTimestamp) =>
               ErrorKind = "TimestampInFuture"
        /\ (~FailsDecode /\ ~FailsSize /\ ~FailsParent /\ ~FailsTimestamp
                /\ FailsClient) =>
               Unwrap(evaluation).err = Unwrap(eval_args).client.err
        /\ Unwrap(evaluation).ok <=>
               ~(FailsDecode \/ FailsSize \/ FailsParent \/ FailsTimestamp
                    \/ FailsClient)
        /\ Unwrap(evaluation).ok => Unwrap(evaluation).value = Some(TRUE)
        /\ evaluated =
               IF FailsDecode \/ FailsSize \/ FailsParent \/ FailsTimestamp
               THEN <<>>
               ELSE <<Unwrap(eval_args).proposal>>

\* C16 witness: a proposal too large, with the wrong parent and a
\* timestamp in the future, has been refused as too large without the
\* client being asked.
C16_Witness ==
    /\ IsSome(evaluation)
    /\ ~FailsDecode
    /\ FailsSize
    /\ FailsParent
    /\ FailsTimestamp
    /\ ErrorKind = "ProposalTooLarge"
    /\ evaluated = <<>>

\* C17: a proposal that decodes is refused with ProposalTooLarge(size),
\* size the sum of its extrinsics' encoded sizes, iff size > 4194304.
C17_ProposalTooLarge ==
    IsSome(evaluation) =>
        /\ ErrorKind = "ProposalTooLarge" <=> (~FailsDecode /\ FailsSize)
        /\ ErrorKind = "ProposalTooLarge" =>
               Unwrap(evaluation).err =
                   <<"ProposalTooLarge",
                     SumOf(Unwrap(eval_args).proposal.extrinsics)>>

\* C17 witness: extrinsics of 4194304 and 1 bytes are refused with
\* ProposalTooLarge(4194305).
C17_Witness ==
    /\ IsSome(evaluation)
    /\ Unwrap(eval_args).proposal.extrinsics = <<4194304, 1>>
    /\ Unwrap(evaluation).err = <<"ProposalTooLarge", 4194305>>

\* C18: a proposal that passes the decode, size and parent hash checks is
\* refused with TimestampInFuture iff its timestamp > now + 4; otherwise
\* it is given to client.evaluate_block, however old it is.
C18_TimestampInFuture ==
    (IsSome(evaluation) /\ ~FailsDecode /\ ~FailsSize /\ ~FailsParent) =>
        /\ ErrorKind = "TimestampInFuture" <=> FailsTimestamp
        /\ ~FailsTimestamp => evaluated = <<Unwrap(eval_args).proposal>>

\* C18 witness: at now = 100 a proposal of timestamp 104 has been given to
\* the client.
C18_Witness ==
    /\ IsSome(evaluation)
    /\ Unwrap(eval_args).now = 100
    /\ Unwrap(eval_args).proposal.timestamp = 104
    /\ evaluated = <<Unwrap(eval_args).proposal>>
    /\ Unwrap(evaluation).ok

--------------------------------------------------------------------------
(* Properties of the proposal future (specification CreateSpec)            *)

\* C19: a poll of the proposal future before the earliest bake time of the
\* dynamic inclusion returns not-ready, and a poll at or after that time
\* yields a block.
C19_NoBlockBeforeEarliestBake ==
    [][CreatePoll =>
          IF clock < earliest_bake(groups, table)
          THEN created'.kind = "NotReady"
          ELSE created'.kind = "Ready"]_vars

--------------------------------------------------------------------------
(* Properties of import_misbehavior (specification MisSpec)                *)

\* the entry is a double prepare or a double commit
IsReported(entry) == entry.kind \in {"DoublePrepare", "DoubleCommit"}

\* the transaction is signed by the local authority
IsLocal(tx) == tx.signed = "L"

\* the entries of the last call that are to be reported, in list order
Reported == SelectSeq(submitted.misbehavior, IsReported)

\* the local signer's pending transactions when the last call was made
LocalPending == SelectSeq(submitted.pending, IsLocal)

\* the seed of the last call: the index of the local signer's last pending
\* transaction, else what client.index gave, if it gave an index
Seed ==
    IF LocalPending # <<>> THEN Some(LocalPending[Len(LocalPending)].index)
    ELSE IF Unwrap(chain_index).ok THEN Some(Unwrap(chain_index).value)
    ELSE None

\* C20: a call submits one report extrinsic per DoublePrepare or
\* DoubleCommit entry, in list order, aimed at the entry's target and
\* signed by the local key, and none for the other entries; the i-th has
\* index seed + i; without a pending local transaction and with
\* client.index failing nothing is submitted.
C20_ReportsAtConsecutiveIndices ==
    submitted.called =>
        IF Seed = None THEN submitted.imported = <<>> /\ tx_pool = submitted.pending
        ELSE /\ Len(submitted.imported) = Len(Reported)
             /\ \A i \in 1..Len(Reported) :
                    /\ submitted.imported[i].extrinsic.signed = "L"
                    /\ submitted.imported[i].signature.signer = "L"
                    /\ submitted.imported[i].signature.message =
                           submitted.imported[i].extrinsic
                    /\ submitted.imported[i].extrinsic.index = Unwrap(Seed) + i
                    /\ submitted.imported[i].extrinsic.function.target =
                           Reported[i].target
                    /\ submitted.imported[i].extrinsic.function.misbehavior =
                           (IF Reported[i].kind = "DoublePrepare"
                            THEN "BftDoublePrepare" ELSE "BftDoubleCommit")
             /\ Len(tx_pool) = Len(submitted.pending) + Len(Reported)

\* C20 witness: with local transactions 2 and 3 pending, a double prepare
\* of A, a proposal out of turn of B and a double commit of B have been
\* reported at indices 4 and 5.
C20_Witness ==
    /\ submitted.called
    /\ Len(submitted.pending) = 3
    /\ submitted.misbehavior =
           << [target |-> "A", kind |-> "DoublePrepare"],
              [target |-> "B", kind |-> "ProposeOutOfTurn"],
              [target |-> "B", kind |-> "DoubleCommit"] >>
    /\ Len(submitted.imported) = 2
    /\ submitted.imported[1].extrinsic.index = 4
    /\ submitted.imported[2].extrinsic.index = 5
    /\ submitted.imported[2].extrinsic.function.target = "B"

--------------------------------------------------------------------------
(* Properties of the shared transaction pool (specification TxSpec)        *)

\* the thread is between taking the pool's lock and dropping it
InsidePool(t) == callers[t].pc \in {"locked", "loop"}

--------------------------------------------------------------------------
(* Properties of commit_suicide (specification SuicideSpec)                *)

\* commit_suicide(who, inherent) has been called
Suicided(who, inherent) ==
    /\ IsSome(db_call)
    /\ Unwrap(db_call).op = "commit_suicide"
    /\ Unwrap(db_call).args = <<who, inherent>>

\* no contract code and no contract storage is left for the account
NoContractData(d, who) ==
    /\ d.code[who] = <<>>
    /\ \A k \in Locations : d.storage[who][k] = None

\* the funds of who went to inherent
Transferred(who, inherent) ==
    free_balance(db, inherent) =
        saturating_add(free_balance(Unwrap(db_call).before, inherent),
                       free_balance(Unwrap(db_call).before, who))

\* C22 as stated: after commit_suicide(who, inherent), for distinct or
\* equal accounts, inherent holds its previous balance plus who's
\* (saturating), who holds 0 and has no contract code and no contract
\* storage.
C22_SuicideTransfersAndPurges ==
    \A who, inherent \in Accounts :
        Suicided(who, inherent) =>
            /\ Transferred(who, inherent)
            /\ free_balance(db, who) = 0
            /\ NoContractData(db, who)

\* C22 amended: the same for distinct accounts; when who = inherent the
\* account ends with balance 0 and no contract data.
C22_SuicideOfDistinctAccounts ==
    \A who, inherent \in Accounts :
        Suicided(who, inherent) =>
            /\ who # inherent => Transferred(who, inherent)
            /\ free_balance(db, who) = 0
            /\ NoContractData(db, who)

\* a suicide between distinct accounts that zeroing did not kill (the
\* existential deposit is 0), of an account that had funds, code and storage
C22_Witness ==
    /\ Suicided("a1", "a2")
    /\ Unwrap(db_call).before.existential_deposit = 0
    /\ Unwrap(db_call).before.balance["a1"] > 0
    /\ Unwrap(db_call).before.code["a1"] # <<>>
    /\ Unwrap(db_call).before.storage["a1"]["k1"] # None
    /\ db.balance["a2"] = BalanceMax

--------------------------------------------------------------------------
(* Properties of CreateProposal::propose (specification ProposeSpec)       *)

\* the proposal made and the pending transactions it was made from
Made == Unwrap(proposed).result
MadeFrom == Unwrap(proposed).pending

\* the transactions the loop visited
Visited == SubSeq(MadeFrom, 1, Len(MadeFrom) - Len(Made.left))

\* the sum of the encoded sizes of the included transactions
IncludedSize == SumOf([i \in 1..Len(Made.block) |-> Made.block[i].size])

\* C23: ready transactions are taken in pool order; one larger than
\* MAX_TRANSACTIONS_SIZE is skipped and culled; any other is pushed to the
\* block builder as long as the size already included plus its own does
\* not exceed MAX_TRANSACTIONS_SIZE; the loop stops only at the first
\* transaction with which the size would exceed the cap; the included size
\* never exceeds MAX_TRANSACTIONS_SIZE.
C23_PendingTakenUpToTheCap ==
    IsSome(proposed) /\ Made.ok =>
        /\ \A i \in 1..Len(Visited) :
               IF Visited[i].size > 4194304
               THEN /\ \A j \in 1..Len(pending_txs) : pending_txs[j] # Visited[i]
                    /\ \A j \in 1..Len(Made.block) : Made.block[j] # Visited[i]
               ELSE Visited[i].valid =>
                        \E j \in 1..Len(Made.block) : Made.block[j] = Visited[i]
        /\ Made.left # <<>> => IncludedSize + Head(Made.left).size > 4194304
        /\ IncludedSize <= 4194304

--------------------------------------------------------------------------
(* Properties of the local collation (specification CreateSpec)            *)

\* C24: once the proposal future has processed a ready local collation
\* with receipt hash h, proposed_hash() returns Some(h) and the import of a
\* remote statement starts no block-data fetch for h.
C24_LocalCollationIsOwnCandidate ==
    [][\A h \in local_candidate :
          /\ ret'.op = "proposed_hash" => ret'.value = Some(h)
          /\ router'.fetch_block_data[h] = router.fetch_block_data[h]]_vars

--------------------------------------------------------------------------
(* Properties of the quorums (specification GroupInfoSpec)                 *)

\* c votes reach the threshold n iff they are more than half of k
IsMajorityThreshold(n, k) == \A c \in 0..(k + 1) : c >= n <=> 2 * c > k

\* C25: for every group make_group_info returns, needed_validity is the
\* smallest number of votes that is more than half of the group's validity
\* guarantors, so the threshold is reached iff a majority of them approved;
\* likewise needed_availability for the availability guarantors.
C25_QuorumIsMajority ==
    (IsSome(group_info) /\ Unwrap(group_info).ok) =>
        \A p \in DOMAIN Unwrap(group_info).map :
            /\ IsMajorityThreshold(
                   Unwrap(group_info).map[p].needed_validity,
                   Cardinality(Unwrap(group_info).map[p].validity_guarantors))
            /\ IsMajorityThreshold(
                   Unwrap(group_info).map[p].needed_availability,
                   Cardinality(Unwrap(group_info).map[p].availability_guarantors))

--------------------------------------------------------------------------
(* Properties of the producers of the shared table (specification          *)
(* DrivenSpec)                                                             *)

\* both fetches are armed on the producer
BothArmed(p) == IsSome(p.fetch_block_data) /\ IsSome(p.fetch_extrinsic)

\* a fetch for the digest has been initiated
FetchInitiated(d) ==
    router.fetch_block_data[d] > 0 \/ router.fetch_extrinsic_data[d] > 0

\* C26: a producer yields an availability statement only if a block-data
\* fetch and an extrinsic fetch were both armed on it and both succeeded,
\* so a producer armed with a single fetch yields none; and a producer
\* returned for a digest after a fetch for it was initiated is not armed
\* with both, so no later producer for the digest yields one either.
C26_AvailabilityNeedsBothFetches ==
    [][/\ (poll_result'.kind = "Ready"
             /\ IsSome(Unwrap(poll_result'.item).availability)) =>
           /\ BothArmed(producer)
           /\ inner_block.state = "Ready"
           /\ inner_extr.state = "Ready"
           /\ Unwrap(poll_result'.item).availability =
                  Some(Available(Unwrap(producer.candidate_digest)))
       /\ \A d \in Digests :
              (/\ ncalls' = ncalls + 1
               /\ ret'.op = "import_statement"
               /\ ret'.value.candidate_digest = Some(d)
               /\ FetchInitiated(d)) => ~BothArmed(ret'.value)]_vars

\* a producer the table armed with the extrinsic fetch alone, for its own
\* proposed candidate, has yielded the extrinsic and no availability
\* statement
C26_Witness ==
    /\ ret.op = "spawned"
    /\ proposed_digest = Some("h1")
    /\ producer.candidate_digest = Some("h1")
    /\ producer.fetch_block_data = None
    /\ IsSome(producer.fetch_extrinsic)
    /\ poll_result.kind = "Ready"
    /\ IsSome(Unwrap(poll_result.item).extrinsic)
    /\ Unwrap(poll_result.item).availability = None

--------------------------------------------------------------------------
(* Properties of DirectAccountDb::commit (specification DirectSpec)        *)

\* the change set committed and the storage before
Committed == Unwrap(db_call).args
Before == Unwrap(db_call).before

\* setting the balance of the entry killed the account
Killed(a) ==
    /\ IsSome(Committed[a].balance)
    /\ Unwrap(Committed[a].balance) < Before.existential_deposit

\* the entry of the account was applied: balance, code and storage
Applied(a) ==
    /\ db.balance[a] = IF IsSome(Committed[a].balance)
                       THEN Unwrap(Committed[a].balance) ELSE Before.balance[a]
    /\ db.code[a] = IF IsSome(Committed[a].code)
                    THEN Unwrap(Committed[a].code) ELSE Before.code[a]
    /\ \A k \in Locations :
           db.storage[a][k] = IF k \in DOMAIN Committed[a].storage
                              THEN Committed[a].storage[k] ELSE Before.storage[a][k]

\* C27: commit applies the balance, the code and the storage of each
\* account's entry (Some inserts, None removes); when setting the balance
\* kills the account its code and storage changes are not written, and no
\* code and no storage of it exists after the commit, while the entries of
\* the other accounts are applied; accounts without an entry keep theirs.
C27_DirectCommitSkipsKilled ==
    (IsSome(db_call) /\ Unwrap(db_call).op = "commit") =>
        \A a \in Accounts :
            IF a \notin DOMAIN Committed
            THEN /\ db.balance[a] = Before.balance[a]
                 /\ db.code[a] = Before.code[a]
                 /\ db.storage[a] = Before.storage[a]
            ELSE IF Killed(a)
            THEN /\ db.balance[a] = 0
                 /\ NoContractData(db, a)
            ELSE Applied(a)

\* a1 is killed by an entry that also carries code and storage, and the
\* entry of a2 is applied
C27_Witness ==
    /\ IsSome(db_call)
    /\ Unwrap(db_call).op = "commit"
    /\ DOMAIN Committed = Accounts
    /\ Killed("a1")
    /\ Before.code["a1"] # <<>>
    /\ Committed["a1"].code = Some(<<1>>)
    /\ DOMAIN Committed["a1"].storage = {"k1"}
    /\ Committed["a1"].storage["k1"] = Some(<<8>>)
    /\ Committed["a2"].balance = Some(2)
    /\ DOMAIN Committed["a2"].storage = {"k1"}
    /\ Committed["a2"].storage["k1"] = None
    /\ db.storage["a2"]["k1"] = None
    /\ Before.storage["a2"]["k1"] # None


\* what the databases answer: A is the overlay over DirectAccountDb, B the
\* overlay over A
AReads == OverlayReads(overlay.a, DirectReads(db))
BReads == OverlayReads(Unwrap(overlay.b), AReads)
ReadsOf(o) == IF o = "a" THEN AReads ELSE BReads

\* the answers r after the change set s is written over them
Overwritten(r, s) ==
    [storage |-> [a \in Accounts |-> [k \in Locations |->
                     IF a \in DOMAIN s /\ k \in DOMAIN s[a].storage
                     THEN s[a].storage[k] ELSE r.storage[a][k]]],
     code |-> [a \in Accounts |->
                  IF a \in DOMAIN s /\ IsSome(s[a].code)
                  THEN Unwrap(s[a].code) ELSE r.code[a]],
     balance |-> [a \in Accounts |->
                     IF a \in DOMAIN s /\ IsSome(s[a].balance)
                     THEN Unwrap(s[a].balance) ELSE r.balance[a]]]

\* C28: the queries of an overlay answer what was last written to it and
\* otherwise what the underlying database answers.  A new overlay answers as
\* its underlying database; set_storage, set_code and set_balance change the
\* answer for their account (and location) to the written value, None for a
\* storage location included, and no other answer; commit changes the
\* answers to the balances and codes of the change set that are Some and to
\* all its storage entries, and no other answer.
C28_OverlayReadsLastWrite ==
    [][ /\ overlay.a = NewChangeSet => AReads = DirectReads(db)
        /\ NewOverlay => BReads' = AReads
        /\ \A o \in {"a", "b"}, a \in Accounts :
              /\ \A k \in Locations, v \in WrittenValues :
                    SetStorage(o, a, k, v) =>
                        ReadsOf(o)' = [ReadsOf(o) EXCEPT !.storage[a][k] = v]
              /\ \A c \in WrittenCodes :
                    SetCode(o, a, c) => ReadsOf(o)' = [ReadsOf(o) EXCEPT !.code[a] = c]
              /\ \A b \in WrittenBalances :
                    SetBalance(o, a, b) =>
                        ReadsOf(o)' = [ReadsOf(o) EXCEPT !.balance[a] = b]
        /\ \A s \in CommittedSets :
              OverlayCommit(s) => AReads' = Overwritten(AReads, s) ]_vars

\* a1's location was removed in the overlay over a storage that holds it,
\* and the commit of a change set without a balance or a code for a1 has
\* kept the ones set before
C28_Witness ==
    /\ db = FullDb
    /\ overlay.b = None
    /\ IsSome(db_call)
    /\ Unwrap(db_call).op = "commit"
    /\ "a1" \in DOMAIN Unwrap(db_call).args
    /\ Unwrap(db_call).args["a1"].balance = None
    /\ Unwrap(db_call).args["a1"].code = None
    /\ "a1" \in DOMAIN overlay.a
    /\ overlay.a["a1"].balance = Some(1)
    /\ overlay.a["a1"].code = Some(<<2>>)
    /\ AReads.storage["a1"]["k1"] = None
    /\ AReads.balance["a1"] = 1
    /\ AReads.code["a1"] = <<2>>

====
